---- MODULE Spec2Model ----
(***************************************************************************)
(* Model of the canary journey orchestrator (canary/canary_test.py) with   *)
(* the collaborators it drives: BrowserAutomation, DBVerifier and          *)
(* AlertManager.  One run of CanaryTest.run() is a sequential program; the *)
(* environment (pages, database rows, Sentry) is an input chosen at every  *)
(* call.  A call the source does not guard with try/except may raise.      *)
(* Wall-clock values are abstracted: a timestamp field is "unset" or       *)
(* "set", and step_timings keeps the recorded keys in insertion order.     *)
(***************************************************************************)
EXTENDS Integers, Sequences, FiniteSets, TLC

\* ---------------------------------------------------------------- bounds
MaxWorkspaceId == 2

MaxTimeout == 12
MaxInterval == 5

\* ------------------------------------------------------ program constants
CATEGORY_WAIT_TIMEOUT == 120
SNAPSHOT_WAIT_TIMEOUT == 300
POLLING_INTERVAL == 5
MIN_CATEGORIES_COUNT == 3
MIN_PROMPTS_COUNT == 15
WORKSPACE_MAX_WAIT == 60
WORKSPACE_POLL_SLEEP == 2
PROMPTS_TIMEOUT == 60
INTER_STEP_2_TIMEOUT == 90
WORKSPACE_COMPLETED_TIMEOUT == 120
LOG_EVERY == 10

\* ------------------------------------------------------------ value sets
None == "None"
NoId == 0                                         \* workspace_id is None
NoWorkspace == [id |-> NoId, status |-> None]     \* no workspace row / empty cache
NoUser == [id |-> NoId, totp_secret |-> FALSE]    \* no user row / empty cache
NoReport == [present |-> FALSE, success |-> FALSE]
\* get_comprehensive_data()["snapshot"] is None
NoSnapshot == "NONE"
\* metrics.db_data as the report reads it: {} ("unset"), {"error": ...} or the collected data
NoData == [kind |-> "unset", workspace_status |-> "", prompts_count |-> 0, snapshot |-> NoSnapshot,
           snapshot_prompts_status |-> FALSE, failed |-> 0, competitors_count |-> 0]
\* result.db_state is None
NoVerification == [present |-> FALSE, workspace_status |-> "none", actual_status |-> "",
                   prompts |-> "none", prompts_count |-> 0, snapshot |-> "none",
                   snapshot_completed |-> "none"]
\* no report has been asked for / built
NoReportInput == [success |-> FALSE, db_data |-> NoData, db_state |-> NoVerification,
                  step_timings |-> <<>>]
NoReportOutput == [is_failure |-> FALSE, status_text |-> "", findings |-> <<>>,
                   step_analysis |-> <<>>]
WorkspaceIds == 1..MaxWorkspaceId
\* the statuses the orchestrator tests for; "UNKNOWN" stands for any other value
WorkspaceStatuses == {"UNKNOWN", "INTER_STEP_1_READY", "INTER_STEP_2_READY", "COMPLETED"}
SnapshotStatuses == {"UNKNOWN", "COMPLETED", "FAILED"}
WorkspaceRows == [id : WorkspaceIds, status : WorkspaceStatuses]
\* what a SELECT on workspaces can give: the latest row of the email, or nothing
WorkspaceStore == WorkspaceRows \cup {NoWorkspace}
\* a row read for one status test only and dropped by the next refresh:
\* it has the expected status, or it does not
ProbeStore(expected) == {[id |-> 1, status |-> expected], NoWorkspace}
UserRows == [id : {1}, totp_secret : BOOLEAN]
CategoryCounts == {0, MIN_CATEGORIES_COUNT}
PromptCounts == {0, MIN_PROMPTS_COUNT}
HandleNames == {"playwright", "browser", "context", "page"}
SetupOrder == <<"playwright", "browser", "context", "page">>
CleanupOrder == <<"page", "context", "browser", "playwright">>

\* no database, DBVerifier or call is looked at
NoDatabase == <<>>
NoCaches == <<>>
NoAnswer == <<>>

\* the process has not exited
NoExit == -1

VARIABLES
    pc,                    \* position of the run() coroutine
    config,                \* CanaryConfig fields the orchestrator reads
    browser,               \* self.browser: None or "created"
    handles,               \* BrowserAutomation._playwright/_browser/_context/_page
    db_verifier,           \* self.db_verifier: None, "open", "closed", "close_failed"
    user_cache,            \* DBVerifier._user_cache
    workspace_cache,       \* DBVerifier._workspace_cache
    workspace_id,          \* CanaryTest.workspace_id
    workspace_ulid,        \* CanaryTest.workspace_ulid
    form_submitted_time,   \* "unset" / "set"
    prompts_ready_time,
    prompts_confirmed_time,
    dashboard_ready_time,
    db_state,              \* CanaryTest.db_state: NoReport or a verification report
    start_time,            \* metrics.start_time set?
    end_time,              \* metrics.end_time set?
    step_timings,          \* metrics.step_timings: keys in insertion order
    errors,                \* metrics.errors
    db_data,               \* metrics.db_data: "unset", "error" (workspace not found) or "data"
    ui_data,               \* metrics.ui_data set?
    waited,                \* loop-local: accumulated sleep of the current wait
    polls,                 \* loop-local: condition checks made by the current wait
    flag,                  \* loop-local success flag of the current wait
    exc,                   \* exception in flight / being handled
    results,               \* every CanaryResult constructed, in order
    calls,                 \* notifier / cleanup / release calls, in order
    steps_started,         \* step numbers in the order they were entered
    steps_returned,        \* step numbers whose method returned normally
    caught,                \* the error the last action caught inside its step, if any
    retval,                \* index in results of the result a return statement picked
    returned,              \* what run() gave back: 0 = still running, i = results[i]
    cleanup_result,        \* how cleanup_test_data() ended: "none" (not called), "ok",
                           \* "errors" (an UPDATE failed, reported in the dict), "raised"
    report_in,             \* the result handed to _send_slack_report() and its is_failure flag
    report_out,            \* what _build_detailed_slack_message() derived from it
    clock,                 \* time.time(), in ticks, as seen by every CanaryTest of the host
    tests,                 \* the CanaryTest objects constructed so far
    workspaces,            \* the rows of the workspaces table, oldest first
    exit_code,             \* the status the CLI process exited with
    db,                    \* the database rows of the test email, as one DBVerifier sees them
    caches,                \* a DBVerifier on its own: _user_cache and _workspace_cache
    answer                 \* what the last DBVerifier call returned

objVars == <<browser, handles, db_verifier>>
cacheVars == <<user_cache, workspace_cache>>
wsVars == <<workspace_id, workspace_ulid>>
timeVars == <<form_submitted_time, prompts_ready_time, prompts_confirmed_time, dashboard_ready_time>>
metricVars == <<start_time, end_time, step_timings, errors, db_data, ui_data>>
loopVars == <<waited, polls, flag>>
outVars == <<results, calls, retval, returned, cleanup_result>>
reportVars == <<report_in, report_out>>
fleetVars == <<clock, tests, workspaces>>
verifierVars == <<db, caches, answer>>
vars == <<pc, config, browser, handles, db_verifier, user_cache, workspace_cache,
          workspace_id, workspace_ulid, form_submitted_time, prompts_ready_time,
          prompts_confirmed_time, dashboard_ready_time, db_state, start_time, end_time,
          step_timings, errors, db_data, ui_data, waited, polls, flag, exc, results,
          calls, steps_started, steps_returned, caught, retval, returned, cleanup_result,
          report_in, report_out, clock, tests, workspaces, exit_code,
          db, caches, answer>>

\* ------------------------------------------------------------- exceptions
CanaryTestError(step, message) == [type |-> "CanaryTestError", step |-> step, message |-> message]
OtherError(message) == [type |-> "Exception", step |-> None, message |-> message]
NoExc == [type |-> None, step |-> None, message |-> None]

\* variant: every exception is handled by the "except CanaryTestError" clause
Raise_all_as_step_error(e) ==
    /\ exc' = e
    /\ pc' = "except_CanaryTestError"
    /\ waited' = 0
    /\ polls' = 0
    /\ flag' = FALSE

\* variant: every exception is handled by the "except Exception" clause
Raise_all_as_unexpected(e) ==
    /\ exc' = e
    /\ pc' = "except_Exception"
    /\ waited' = 0
    /\ polls' = 0
    /\ flag' = FALSE

\* run(): an exception leaving the try body is dispatched to the first
\* matching except clause; the locals of the step that raised are gone.
Raise(e) ==
    /\ exc' = e
    /\ pc' = IF e.type = "CanaryTestError" THEN "except_CanaryTestError" ELSE "except_Exception"
    /\ waited' = 0
    /\ polls' = 0
    /\ flag' = FALSE

\* ---------------------------------------------------------------- metrics
InSeq(s, x) == \E i \in 1..Len(s) : s[i] = x

\* variant: a new key is put in front of the others
record_step_timing_at_front(timings, step_name) ==
    IF \E i \in 1..Len(timings) : timings[i] = step_name
    THEN timings ELSE <<step_name>> \o timings

\* dict assignment: a new key is added at the end, an existing key keeps its place
record_step_timing(timings, step_name) ==
    IF InSeq(timings, step_name) THEN timings ELSE Append(timings, step_name)

\* variant: the error is logged but not appended
record_error_dropped(errs, step, error) == errs

record_error(errs, step, error) == Append(errs, [step |-> step, error |-> error])

\* --------------------------------------------------------------- DBVerifier
\* get_workspace(): the cached row if there is one, else the row the store
\* holds now; only a found row is cached.  The value is also the new cache.
get_workspace(cache, store) == IF cache # NoWorkspace THEN cache ELSE store

\* refresh_workspace(): drop the cache and read the store
refresh_workspace(store) == get_workspace(NoWorkspace, store)

\* variant: the store is not read again once a lookup has been made
get_user_cache_only(cache, store) == cache

get_user(cache, store) == IF cache # NoUser THEN cache ELSE store

verify_workspace_status(row, expected) == row # NoWorkspace /\ row.status = expected

verify_count(row, count, min_count) == row # NoWorkspace /\ count >= min_count

\* ------------------------------------------------------------------- Init
Init ==
    /\ pc = "run"
    /\ config \in [AUTO_CLEANUP : BOOLEAN, SKIP_OTP_VERIFICATION : BOOLEAN]
    /\ browser = None
    /\ handles = [h \in HandleNames |-> "none"]
    /\ db_verifier = None
    /\ user_cache = NoUser
    /\ workspace_cache = NoWorkspace
    /\ workspace_id = NoId
    /\ workspace_ulid = NoId
    /\ form_submitted_time = "unset"
    /\ prompts_ready_time = "unset"
    /\ prompts_confirmed_time = "unset"
    /\ dashboard_ready_time = "unset"
    /\ db_state = NoReport
    /\ start_time = FALSE
    /\ end_time = FALSE
    /\ step_timings = <<>>
    /\ errors = <<>>
    /\ db_data = "unset"
    /\ ui_data = FALSE
    /\ waited = 0
    /\ polls = 0
    /\ flag = FALSE
    /\ exc = NoExc
    /\ results = <<>>
    /\ calls = <<>>
    /\ steps_started = <<>>
    /\ steps_returned = {}
    /\ caught = NoExc
    /\ retval = 0
    /\ returned = 0
    /\ cleanup_result = "none"
    /\ report_in = NoReportInput
    /\ report_out = NoReportOutput
    /\ clock = 0
    /\ tests = <<>>
    /\ workspaces = <<>>
    /\ exit_code = NoExit
    /\ db = NoDatabase
    /\ caches = NoCaches
    /\ answer = NoAnswer

\* the key under which step n records its duration (the keys of BASELINE_TIMINGS)
STEP_KEYS == <<"step_01_landing", "step_02_click_get_report", "step_03_fill_email",
               "step_04_verify_user", "step_05_fill_otp", "step_06_workspace_details",
               "step_07_wait_categories", "step_08_approve_prompts", "step_09_wait_snapshot",
               "step_10_verify_dashboard", "step_11_full_verification">>

\* A step method is entered
StepStarts(n) == steps_started' = Append(steps_started, n)

\* A step method returned normally: control goes to the next statement of run()
StepReturns(n, next) ==
    /\ steps_returned' = steps_returned \cup {n}
    /\ pc' = next
    /\ waited' = 0
    /\ polls' = 0
    /\ flag' = FALSE
    /\ exc' = exc

\* ------------------------------------------------------------ run(): entry
RunStart ==
    /\ pc = "run"
    /\ start_time' = TRUE
    /\ pc' = "setup"
    /\ UNCHANGED <<config, reportVars, fleetVars, exit_code, verifierVars, objVars, cacheVars, wsVars, timeVars, db_state, end_time,
                   step_timings, errors, db_data, ui_data, loopVars, exc, outVars,
                   steps_started, steps_returned>>
    /\ caught' = NoExc

\* _setup(): self.browser is assigned before browser.setup() opens the four
\* Playwright handles one after the other; any of these, or create_engine,
\* may raise.
Setup ==
    /\ pc = "setup"
    /\ browser' = "created"
    /\ \E opened \in 0..4, engine_ok \in BOOLEAN :
        /\ handles' = [h \in HandleNames |->
                          IF \E i \in 1..opened : SetupOrder[i] = h THEN "open" ELSE "none"]
        /\ IF opened < 4
           THEN /\ Raise(OtherError("browser setup failed"))
                /\ UNCHANGED <<db_verifier, step_timings>>
           ELSE IF ~engine_ok
           THEN /\ Raise(OtherError("create_engine failed"))
                /\ UNCHANGED <<db_verifier, step_timings>>
           ELSE /\ db_verifier' = "open"
                /\ step_timings' = record_step_timing(step_timings, "setup")
                /\ pc' = "step_01"
                /\ UNCHANGED <<exc, loopVars>>
    /\ UNCHANGED <<config, reportVars, fleetVars, exit_code, verifierVars, cacheVars, wsVars, timeVars, db_state, start_time, end_time,
                   errors, db_data, ui_data, outVars, steps_started, steps_returned>>
    /\ caught' = NoExc


\* --------------------------------------------------------------- steps 1-5
\* _step_01_navigate_to_landing(): navigate_to_landing() turns every failure
\* into CanaryTestError("STEP_01_LANDING_PAGE")
Step01 ==
    /\ pc = "step_01"
    /\ StepStarts(1)
    /\ \E ok \in BOOLEAN :
        IF ok
        THEN /\ step_timings' = record_step_timing(step_timings, STEP_KEYS[1])
             /\ StepReturns(1, "step_02")
        ELSE /\ Raise(CanaryTestError("STEP_01_LANDING_PAGE", "Failed to load landing page"))
             /\ UNCHANGED <<step_timings, steps_returned>>
    /\ UNCHANGED <<config, reportVars, fleetVars, exit_code, verifierVars, objVars, cacheVars, wsVars, timeVars, db_state, start_time, end_time,
                   errors, db_data, ui_data, outVars>>
    /\ caught' = NoExc

\* _step_02_click_get_report()
Step02 ==
    /\ pc = "step_02"
    /\ StepStarts(2)
    /\ \E ok \in BOOLEAN :
        IF ok
        THEN /\ step_timings' = record_step_timing(step_timings, STEP_KEYS[2])
             /\ StepReturns(2, "step_03")
        ELSE /\ Raise(CanaryTestError("STEP_02_CLICK_GET_REPORT", "Could not find Get Report button"))
             /\ UNCHANGED <<step_timings, steps_returned>>
    /\ UNCHANGED <<config, reportVars, fleetVars, exit_code, verifierVars, objVars, cacheVars, wsVars, timeVars, db_state, start_time, end_time,
                   errors, db_data, ui_data, outVars>>
    /\ caught' = NoExc

\* variant: step 3 does not note when the form was submitted
step_03_keeps_form_submitted_time(outcome, old) == old

\* "self.form_submitted_time = time.time()" follows submit_workspace_form():
\* it is executed unless the fill or the submit raised
step_03_form_submitted_time(outcome, old) ==
    IF outcome \in {"ok", "otp_wait_failed"} THEN "set" ELSE old

\* _step_03_fill_email_and_submit(): fill_workspace_form, submit_workspace_form
\* (form_submitted_time is set once it returned), wait_for_otp_input.  The page
\* checks and the screenshot in between are guarded and cannot fail the step.
Step03 ==
    /\ pc = "step_03"
    /\ StepStarts(3)
    /\ \E outcome \in {"ok", "fill_failed", "submit_failed", "otp_wait_failed"} :
        /\ form_submitted_time' = step_03_form_submitted_time(outcome, form_submitted_time)
        /\ CASE outcome = "ok" ->
                  /\ step_timings' = record_step_timing(step_timings, STEP_KEYS[3])
                  /\ StepReturns(3, "step_04")
             [] outcome = "fill_failed" ->
                  /\ Raise(CanaryTestError("STEP_06_FILL_FORM", "Failed to fill workspace form"))
                  /\ UNCHANGED <<step_timings, steps_returned>>
             [] outcome = "submit_failed" ->
                  /\ Raise(CanaryTestError("STEP_06_SUBMIT_FORM", "Could not find submit button"))
                  /\ UNCHANGED <<step_timings, steps_returned>>
             [] outcome = "otp_wait_failed" ->
                  /\ Raise(CanaryTestError("STEP_03_OTP_WAIT", "OTP input screen did not appear"))
                  /\ UNCHANGED <<step_timings, steps_returned>>
    /\ UNCHANGED <<config, reportVars, fleetVars, exit_code, verifierVars, objVars, cacheVars, wsVars, prompts_ready_time, prompts_confirmed_time,
                   dashboard_ready_time, db_state, start_time, end_time,
                   errors, db_data, ui_data, outVars>>
    /\ caught' = NoExc

\* _step_04_verify_user_created(): one verify_user_exists(); the timing is
\* recorded after the check, on the success path only
Step04 ==
    /\ pc = "step_04"
    /\ StepStarts(4)
    /\ \E store \in IF user_cache = NoUser THEN UserRows \cup {NoUser} ELSE {NoUser},
          db_ok \in BOOLEAN :
        LET user == get_user(user_cache, store) IN
        IF ~db_ok
        THEN /\ user_cache = NoUser
             /\ Raise(OtherError("database error"))
             /\ UNCHANGED <<user_cache, step_timings, steps_returned>>
        ELSE /\ user_cache' = user
             /\ IF user = NoUser
                THEN /\ Raise(CanaryTestError("STEP_04_VERIFY_USER", "User not created"))
                     /\ UNCHANGED <<step_timings, steps_returned>>
                ELSE /\ step_timings' = record_step_timing(step_timings, STEP_KEYS[4])
                     /\ StepReturns(4, "step_05")
    /\ UNCHANGED <<config, reportVars, fleetVars, exit_code, verifierVars, objVars, workspace_cache, wsVars, timeVars, db_state, start_time,
                   end_time, errors, db_data, ui_data, outVars>>
    /\ caught' = NoExc

\* get_otp_code(): None when there is no user, no secret, or decryption fails
get_otp_code(user, decrypt_ok) == user # NoUser /\ user.totp_secret /\ decrypt_ok

\* _step_05_fill_otp(): skipped under SKIP_OTP_VERIFICATION; otherwise
\* get_otp_code, fill_otp, submit_otp.  submit_otp() catches every Exception
\* raised inside it (logged as "OTP submit note") and returns normally.
Step05 ==
    /\ pc = "step_05"
    /\ StepStarts(5)
    /\ \E store \in IF user_cache = NoUser THEN UserRows \cup {NoUser} ELSE {NoUser},
          outcome \in {"ok", "submit_caught", "select_failed", "no_otp", "fill_failed"} :
        LET user == get_user(user_cache, store) IN
        IF config.SKIP_OTP_VERIFICATION
        THEN /\ outcome = "ok"
             /\ step_timings' = record_step_timing(step_timings, STEP_KEYS[5])
             /\ StepReturns(5, "step_06")
             /\ caught' = NoExc
             /\ UNCHANGED user_cache
        ELSE CASE outcome = "select_failed" ->
                    /\ user_cache = NoUser
                    /\ Raise(OtherError("database error"))
                    /\ caught' = NoExc
                    /\ UNCHANGED <<user_cache, step_timings, steps_returned>>
               [] outcome = "no_otp" ->
                    /\ user_cache' = user
                    /\ \E decrypt_ok \in BOOLEAN : ~get_otp_code(user, decrypt_ok)
                    /\ Raise(CanaryTestError("STEP_05_GET_OTP", "Could not retrieve OTP code from database"))
                    /\ caught' = NoExc
                    /\ UNCHANGED <<step_timings, steps_returned>>
               [] outcome = "fill_failed" ->
                    /\ user_cache' = user
                    /\ get_otp_code(user, TRUE)
                    /\ Raise(CanaryTestError("STEP_05_FILL_OTP", "Could not find OTP inputs"))
                    /\ caught' = NoExc
                    /\ UNCHANGED <<step_timings, steps_returned>>
               [] outcome \in {"ok", "submit_caught"} ->
                    /\ user_cache' = user
                    /\ get_otp_code(user, TRUE)
                    /\ caught' = IF outcome = "ok" THEN NoExc ELSE OtherError("OTP submit failed")
                    /\ step_timings' = record_step_timing(step_timings, STEP_KEYS[5])
                    /\ StepReturns(5, "step_06")
    /\ UNCHANGED <<config, reportVars, fleetVars, exit_code, verifierVars, objVars, workspace_cache, wsVars, timeVars, db_state, start_time,
                   end_time, errors, db_data, ui_data, outVars>>


\* ------------------------------------------------------------------ step 6
\* variant: "while waited <= timeout", one iteration too many
while_waited_inclusive(w, timeout) == w <= timeout

\* the condition of every polling loop: "while waited < timeout"
while_waited(w, timeout) == w < timeout

\* the store is queried only when the cache is empty
StoreIfEmpty(cache) == IF cache = NoWorkspace THEN WorkspaceStore ELSE {NoWorkspace}

\* variant: the loop sleeps before its first check
Step06Begin_sleeps_first ==
    /\ pc = "step_06"
    /\ steps_started' = Append(steps_started, 6)
    /\ pc' = "step_06_wait"
    /\ waited' = WORKSPACE_POLL_SLEEP
    /\ polls' = 0
    /\ UNCHANGED <<config, reportVars, fleetVars, exit_code, verifierVars, objVars, cacheVars, wsVars, timeVars, db_state, metricVars, flag, exc,
                   outVars, steps_returned>>
    /\ caught' = NoExc

Step06Begin ==
    /\ pc = "step_06"
    /\ StepStarts(6)
    /\ pc' = "step_06_wait"
    /\ waited' = 0
    /\ polls' = 0
    /\ UNCHANGED <<config, reportVars, fleetVars, exit_code, verifierVars, objVars, cacheVars, wsVars, timeVars, db_state, metricVars, flag, exc,
                   outVars, steps_returned>>
    /\ caught' = NoExc

\* one iteration of "while waited < max_wait": verify_workspace_created(),
\* on success capture the identifiers and break, else sleep 2 and count it
Step06Poll ==
    /\ pc = "step_06_wait"
    /\ while_waited(waited, WORKSPACE_MAX_WAIT)
    /\ \/ /\ workspace_cache = NoWorkspace
          /\ Raise(OtherError("database error"))
          /\ UNCHANGED <<workspace_cache, wsVars>>
       \/ \E store \in StoreIfEmpty(workspace_cache) :
            LET row == get_workspace(workspace_cache, store) IN
            /\ workspace_cache' = row
            /\ polls' = polls + 1
            /\ IF row # NoWorkspace
               THEN /\ workspace_id' = row.id
                    /\ workspace_ulid' = row.id
                    /\ pc' = "step_06_found"
                    /\ waited' = waited
               ELSE /\ waited' = waited + WORKSPACE_POLL_SLEEP
                    /\ pc' = pc
                    /\ UNCHANGED wsVars
            /\ UNCHANGED <<flag, exc>>
    /\ UNCHANGED <<config, reportVars, fleetVars, exit_code, verifierVars, objVars, user_cache, timeVars, db_state, metricVars, outVars,
                   steps_started, steps_returned>>
    /\ caught' = NoExc

\* after the loop: "if not self.workspace_id: raise", then the unguarded
\* page.evaluate() of the modal state, then the timing
Step06Finish ==
    /\ \/ pc = "step_06_found"
       \/ pc = "step_06_wait" /\ ~while_waited(waited, WORKSPACE_MAX_WAIT)
    /\ \E evaluate_ok \in BOOLEAN :
        IF workspace_id = NoId
        THEN /\ Raise(CanaryTestError("STEP_06_WORKSPACE_CREATED", "Workspace was not created within timeout"))
             /\ UNCHANGED <<step_timings, steps_returned>>
        ELSE IF ~evaluate_ok
        THEN /\ Raise(OtherError("page.evaluate failed"))
             /\ UNCHANGED <<step_timings, steps_returned>>
        ELSE /\ step_timings' = record_step_timing(step_timings, STEP_KEYS[6])
             /\ StepReturns(6, "step_07")
    /\ UNCHANGED <<config, reportVars, fleetVars, exit_code, verifierVars, objVars, cacheVars, wsVars, timeVars, db_state, start_time, end_time,
                   errors, db_data, ui_data, outVars, steps_started>>
    /\ caught' = NoExc

\* ------------------------------------------------------------------ step 7
Step07Begin ==
    /\ pc = "step_07"
    /\ StepStarts(7)
    /\ pc' = "step_07_categories"
    /\ waited' = 0
    /\ polls' = 0
    /\ flag' = FALSE
    /\ UNCHANGED <<config, reportVars, fleetVars, exit_code, verifierVars, objVars, cacheVars, wsVars, timeVars, db_state, metricVars, exc,
                   outVars, steps_returned>>
    /\ caught' = NoExc

\* the periodic progress log: refresh_workspace() and, if a row came back, a count query
LogDue(w) == w % LOG_EVERY = 0

\* variant: the wait also needs the categories to have been seen
category_wait_needs_categories(st1, st2, st3, categories_ready) ==
    categories_ready /\ (st1 \/ st2 \/ st3)

\* the if/elif/elif chain of breaks: any of the three statuses ends the wait;
\* categories_ready is only logged
category_wait_over(st1, st2, st3, categories_ready) == st1 \/ st2 \/ st3

\* one iteration of the category wait: verify_categories_created, then three
\* verify_workspace_status (each refreshes the cache); any of the three
\* statuses ends the wait
Step07CategoriesPoll ==
    /\ pc = "step_07_categories"
    /\ while_waited(waited, CATEGORY_WAIT_TIMEOUT)
    /\ \/ \* a SELECT on workspaces raises: the cache is empty at that moment
          /\ Raise(OtherError("database error"))
          /\ workspace_cache' = NoWorkspace
       \/ \* the count query of verify_categories_created raises
          \E s0 \in StoreIfEmpty(workspace_cache) :
            /\ get_workspace(workspace_cache, s0) # NoWorkspace
            /\ Raise(OtherError("database error"))
            /\ workspace_cache' = get_workspace(workspace_cache, s0)
       \/ \* the count query of the progress log raises
          \E s4 \in WorkspaceRows :
            /\ LogDue(waited)
            /\ Raise(OtherError("database error"))
            /\ workspace_cache' = s4
       \/ \E s0 \in StoreIfEmpty(workspace_cache), count \in CategoryCounts,
             s1 \in ProbeStore("INTER_STEP_1_READY"), s2 \in ProbeStore("INTER_STEP_2_READY"),
             s3 \in WorkspaceStore :
            LET row0 == get_workspace(workspace_cache, s0)
                st1 == verify_workspace_status(refresh_workspace(s1), "INTER_STEP_1_READY")
                st2 == verify_workspace_status(refresh_workspace(s2), "INTER_STEP_2_READY")
                st3 == verify_workspace_status(refresh_workspace(s3), "COMPLETED")
                categories_ready == flag \/ verify_count(row0, count, MIN_CATEGORIES_COUNT)
                done == category_wait_over(st1, st2, st3, categories_ready)
            IN
            \E s4 \in IF ~done /\ LogDue(waited) THEN WorkspaceStore ELSE {s3} :
                /\ workspace_cache' = s4
                /\ polls' = polls + 1
                /\ flag' = categories_ready
                /\ IF done
                   THEN pc' = "step_07_categories_done" /\ waited' = waited
                   ELSE pc' = pc /\ waited' = waited + POLLING_INTERVAL
                /\ exc' = exc
    /\ UNCHANGED <<config, reportVars, fleetVars, exit_code, verifierVars, objVars, user_cache, wsVars, timeVars, db_state, metricVars, outVars,
                   steps_started, steps_returned>>
    /\ caught' = NoExc

\* variant: the category wait's timeout test is missing
categories_never_time_out(w) == FALSE

\* "if waited >= timeout: raise CanaryTestError" after the category wait
categories_timed_out(w) == w >= CATEGORY_WAIT_TIMEOUT

\* the category wait is over: failure if it ran out, else on to the prompts wait
Step07CategoriesDone ==
    /\ \/ pc = "step_07_categories_done"
       \/ pc = "step_07_categories" /\ ~while_waited(waited, CATEGORY_WAIT_TIMEOUT)
    /\ IF categories_timed_out(waited)
       THEN Raise(CanaryTestError("STEP_07_WAIT_CATEGORIES", "Categories not ready within timeout"))
       ELSE /\ pc' = "step_07_prompts"
            /\ waited' = 0
            /\ polls' = 0
            /\ flag' = FALSE
            /\ exc' = exc
    /\ UNCHANGED <<config, reportVars, fleetVars, exit_code, verifierVars, objVars, cacheVars, wsVars, timeVars, db_state, metricVars, outVars,
                   steps_started, steps_returned>>
    /\ caught' = NoExc

\* one iteration of the prompts wait of step 7: on success Loading-1 is
\* recorded and the loop is left
Step07PromptsPoll ==
    /\ pc = "step_07_prompts"
    /\ while_waited(waited, PROMPTS_TIMEOUT)
    /\ \/ \* a SELECT on workspaces raises (empty cache, or the refresh of the log)
          /\ workspace_cache = NoWorkspace \/ LogDue(waited)
          /\ Raise(OtherError("database error"))
          /\ workspace_cache' = NoWorkspace
          /\ UNCHANGED <<prompts_ready_time, step_timings>>
       \/ \* the count query of verify_prompts_created raises
          \E s0 \in StoreIfEmpty(workspace_cache) :
            /\ get_workspace(workspace_cache, s0) # NoWorkspace
            /\ Raise(OtherError("database error"))
            /\ workspace_cache' = get_workspace(workspace_cache, s0)
            /\ UNCHANGED <<prompts_ready_time, step_timings>>
       \/ \* the count query of the progress log raises
          \E s4 \in WorkspaceRows :
            /\ LogDue(waited)
            /\ Raise(OtherError("database error"))
            /\ workspace_cache' = s4
            /\ UNCHANGED <<prompts_ready_time, step_timings>>
       \/ \E s0 \in StoreIfEmpty(workspace_cache), count \in PromptCounts :
            LET row0 == get_workspace(workspace_cache, s0)
                ready == verify_count(row0, count, MIN_PROMPTS_COUNT)
            IN
            \E s4 \in IF ~ready /\ LogDue(waited) THEN WorkspaceStore ELSE {row0} :
                /\ workspace_cache' = s4
                /\ polls' = polls + 1
                /\ IF ready
                   THEN /\ prompts_ready_time' = "set"
                        /\ step_timings' = record_step_timing(step_timings, "loading_1_form_to_prompts")
                        /\ pc' = "step_07_prompts_done"
                        /\ waited' = waited
                   ELSE /\ pc' = pc
                        /\ waited' = waited + POLLING_INTERVAL
                        /\ UNCHANGED <<prompts_ready_time, step_timings>>
                /\ UNCHANGED <<flag, exc>>
    /\ UNCHANGED <<config, reportVars, fleetVars, exit_code, verifierVars, objVars, user_cache, wsVars, form_submitted_time, prompts_confirmed_time,
                   dashboard_ready_time, db_state, start_time, end_time, errors, db_data, ui_data,
                   outVars, steps_started, steps_returned>>
    /\ caught' = NoExc

\* the code after the prompts wait is the same whether the wait found the
\* prompts or ran out: sleep, unguarded page.evaluate(), screenshot, timing
Step07Finish ==
    /\ \/ pc = "step_07_prompts_done"
       \/ pc = "step_07_prompts" /\ ~while_waited(waited, PROMPTS_TIMEOUT)
    /\ \E evaluate_ok \in BOOLEAN :
        IF ~evaluate_ok
        THEN /\ Raise(OtherError("page.evaluate failed"))
             /\ UNCHANGED <<step_timings, steps_returned>>
        ELSE /\ step_timings' = record_step_timing(step_timings, STEP_KEYS[7])
             /\ StepReturns(7, "step_08")
    /\ UNCHANGED <<config, reportVars, fleetVars, exit_code, verifierVars, objVars, cacheVars, wsVars, timeVars, db_state, start_time, end_time,
                   errors, db_data, ui_data, outVars, steps_started>>
    /\ caught' = NoExc


\* ------------------------------------------------------------------ step 8
Step08Begin ==
    /\ pc = "step_08"
    /\ StepStarts(8)
    /\ pc' = "step_08_prompts"
    /\ waited' = 0
    /\ polls' = 0
    /\ flag' = FALSE
    /\ UNCHANGED <<config, reportVars, fleetVars, exit_code, verifierVars, objVars, cacheVars, wsVars, timeVars, db_state, metricVars, exc,
                   outVars, steps_returned>>
    /\ caught' = NoExc

\* one iteration of the prompts wait of step 8; flag is prompts_ready
Step08PromptsPoll ==
    /\ pc = "step_08_prompts"
    /\ while_waited(waited, CATEGORY_WAIT_TIMEOUT)
    /\ \/ \* a SELECT on workspaces raises (empty cache, or the refresh after a miss)
          /\ Raise(OtherError("database error"))
          /\ workspace_cache' = NoWorkspace
       \/ \* the count query of verify_prompts_created raises
          \E s0 \in StoreIfEmpty(workspace_cache) :
            /\ get_workspace(workspace_cache, s0) # NoWorkspace
            /\ Raise(OtherError("database error"))
            /\ workspace_cache' = get_workspace(workspace_cache, s0)
       \/ \* the count query of the progress log raises
          \E s4 \in WorkspaceRows :
            /\ Raise(OtherError("database error"))
            /\ workspace_cache' = s4
       \/ \E s0 \in StoreIfEmpty(workspace_cache), count \in PromptCounts :
            LET row0 == get_workspace(workspace_cache, s0)
                ready == verify_count(row0, count, MIN_PROMPTS_COUNT)
            IN
            \E s4 \in IF ~ready THEN WorkspaceStore ELSE {row0} :
                /\ workspace_cache' = s4
                /\ polls' = polls + 1
                /\ flag' = ready
                /\ IF ready
                   THEN pc' = "step_08_prompts_done" /\ waited' = waited
                   ELSE pc' = pc /\ waited' = waited + POLLING_INTERVAL
                /\ exc' = exc
    /\ UNCHANGED <<config, reportVars, fleetVars, exit_code, verifierVars, objVars, user_cache, wsVars, timeVars, db_state, metricVars, outVars,
                   steps_started, steps_returned>>
    /\ caught' = NoExc

\* after the prompts wait (found or not: a warning is all a timeout gives):
\* screenshot, click_continue_prompts() inside try/except CanaryTestError,
\* sleep 3, then the status wait starts
Step08Approve ==
    /\ \/ pc = "step_08_prompts_done"
       \/ pc = "step_08_prompts" /\ ~while_waited(waited, CATEGORY_WAIT_TIMEOUT)
    /\ \E click_ok \in BOOLEAN :
        IF click_ok
        THEN /\ prompts_confirmed_time' = "set"
             /\ caught' = NoExc
        ELSE /\ prompts_confirmed_time' = prompts_confirmed_time
             /\ caught' = CanaryTestError("STEP_08_PROMPTS_CONTINUE", "Could not find continue button")
    /\ pc' = "step_08_status"
    /\ waited' = 0
    /\ polls' = 0
    /\ flag' = FALSE
    /\ UNCHANGED <<config, reportVars, fleetVars, exit_code, verifierVars, objVars, cacheVars, wsVars, form_submitted_time, prompts_ready_time,
                   dashboard_ready_time, db_state, metricVars, exc, outVars, steps_started,
                   steps_returned>>

\* one iteration of the INTER_STEP_2_READY wait
Step08StatusPoll ==
    /\ pc = "step_08_status"
    /\ while_waited(waited, INTER_STEP_2_TIMEOUT)
    /\ \/ /\ Raise(OtherError("database error"))
          /\ workspace_cache' = NoWorkspace
       \/ \E s1 \in ProbeStore("INTER_STEP_2_READY"), s2 \in WorkspaceStore :
            LET status_result == verify_workspace_status(refresh_workspace(s1), "INTER_STEP_2_READY")
                status_completed == verify_workspace_status(refresh_workspace(s2), "COMPLETED")
                done == status_completed \/ status_result
            IN
            \E s4 \in IF ~done THEN WorkspaceStore ELSE {s2} :
                /\ workspace_cache' = s4
                /\ polls' = polls + 1
                /\ IF done
                   THEN pc' = "step_08_status_done" /\ waited' = waited
                   ELSE pc' = pc /\ waited' = waited + POLLING_INTERVAL
                /\ UNCHANGED <<flag, exc>>
    /\ UNCHANGED <<config, reportVars, fleetVars, exit_code, verifierVars, objVars, user_cache, wsVars, timeVars, db_state, metricVars, outVars,
                   steps_started, steps_returned>>
    /\ caught' = NoExc

\* the timing is recorded whether the status wait succeeded or ran out
Step08Finish ==
    /\ \/ pc = "step_08_status_done"
       \/ pc = "step_08_status" /\ ~while_waited(waited, INTER_STEP_2_TIMEOUT)
    /\ step_timings' = record_step_timing(step_timings, STEP_KEYS[8])
    /\ StepReturns(8, "step_09")
    /\ UNCHANGED <<config, reportVars, fleetVars, exit_code, verifierVars, objVars, cacheVars, wsVars, timeVars, db_state, start_time, end_time,
                   errors, db_data, ui_data, outVars, steps_started>>
    /\ caught' = NoExc

\* ------------------------------------------------------------------ step 9
\* wait_for_snapshot_loading(10) inside try/except CanaryTestError
Step09Begin ==
    /\ pc = "step_09"
    /\ StepStarts(9)
    /\ \E browser_wait_ok \in BOOLEAN :
        caught' = IF browser_wait_ok THEN NoExc
                  ELSE CanaryTestError("STEP_09_SNAPSHOT_WAIT", "Snapshot did not complete within 10s")
    /\ pc' = "step_09_snapshot"
    /\ waited' = 0
    /\ polls' = 0
    /\ flag' = FALSE
    /\ UNCHANGED <<config, reportVars, fleetVars, exit_code, verifierVars, objVars, cacheVars, wsVars, timeVars, db_state, metricVars, exc,
                   outVars, steps_returned>>

\* one iteration of the snapshot wait; flag is snapshot_completed
Step09SnapshotPoll ==
    /\ pc = "step_09_snapshot"
    /\ while_waited(waited, SNAPSHOT_WAIT_TIMEOUT)
    /\ \/ \* refresh_workspace() raises
          /\ Raise(OtherError("database error"))
          /\ workspace_cache' = NoWorkspace
       \/ \* get_latest_snapshot() or get_snapshot_prompts_status() raises
          \E s0 \in WorkspaceRows :
            /\ Raise(OtherError("database error"))
            /\ workspace_cache' = refresh_workspace(s0)
       \/ \E s0 \in WorkspaceStore :
            LET workspace == refresh_workspace(s0) IN
            \E snap \in IF workspace = NoWorkspace THEN {None} ELSE SnapshotStatuses \cup {None} :
                /\ workspace_cache' = workspace
                /\ polls' = polls + 1
                /\ IF workspace # NoWorkspace /\ snap \in {"COMPLETED", "FAILED"}
                   THEN /\ flag' = (snap = "COMPLETED")
                        /\ pc' = "step_09_snapshot_done"
                        /\ waited' = waited
                   ELSE /\ flag' = flag
                        /\ pc' = pc
                        /\ waited' = waited + POLLING_INTERVAL
                /\ exc' = exc
    /\ UNCHANGED <<config, reportVars, fleetVars, exit_code, verifierVars, objVars, user_cache, wsVars, timeVars, db_state, metricVars, outVars,
                   steps_started, steps_returned>>
    /\ caught' = NoExc

\* a snapshot wait that ran out only logs a warning; the workspace wait starts
Step09SnapshotDone ==
    /\ \/ pc = "step_09_snapshot_done"
       \/ pc = "step_09_snapshot" /\ ~while_waited(waited, SNAPSHOT_WAIT_TIMEOUT)
    /\ pc' = "step_09_workspace"
    /\ waited' = 0
    /\ polls' = 0
    /\ flag' = FALSE
    /\ UNCHANGED <<config, reportVars, fleetVars, exit_code, verifierVars, objVars, cacheVars, wsVars, timeVars, db_state, metricVars, exc,
                   outVars, steps_started, steps_returned>>
    /\ caught' = NoExc

\* one iteration of the workspace-COMPLETED wait; flag is workspace_completed;
\* Loading-2 is recorded when COMPLETED is seen
Step09WorkspacePoll ==
    /\ pc = "step_09_workspace"
    /\ while_waited(waited, WORKSPACE_COMPLETED_TIMEOUT)
    /\ \/ /\ Raise(OtherError("database error"))
          /\ workspace_cache' = NoWorkspace
          /\ UNCHANGED <<dashboard_ready_time, step_timings>>
       \/ \E s1 \in WorkspaceStore :
            LET completed == verify_workspace_status(refresh_workspace(s1), "COMPLETED") IN
            \E s4 \in IF ~completed THEN WorkspaceStore ELSE {s1} :
                /\ workspace_cache' = s4
                /\ polls' = polls + 1
                /\ IF completed
                   THEN /\ dashboard_ready_time' = "set"
                        /\ step_timings' = record_step_timing(step_timings, "loading_2_confirm_to_dashboard")
                        /\ flag' = TRUE
                        /\ pc' = "step_09_workspace_done"
                        /\ waited' = waited
                   ELSE /\ flag' = flag
                        /\ pc' = pc
                        /\ waited' = waited + POLLING_INTERVAL
                        /\ UNCHANGED <<dashboard_ready_time, step_timings>>
                /\ exc' = exc
    /\ UNCHANGED <<config, reportVars, fleetVars, exit_code, verifierVars, objVars, user_cache, wsVars, form_submitted_time, prompts_ready_time,
                   prompts_confirmed_time, db_state, start_time, end_time, errors, db_data,
                   ui_data, outVars, steps_started, steps_returned>>
    /\ caught' = NoExc

\* after the waits: a last refresh if the workspace never completed, then
\* "time.time() - self.prompts_confirmed_time" under a hasattr() test that is
\* always true, so an unset confirmation time raises TypeError
Step09Finish ==
    /\ \/ pc = "step_09_workspace_done"
       \/ pc = "step_09_workspace" /\ ~while_waited(waited, WORKSPACE_COMPLETED_TIMEOUT)
    /\ \/ /\ ~flag
          /\ Raise(OtherError("database error"))
          /\ workspace_cache' = NoWorkspace
          /\ UNCHANGED <<step_timings, steps_returned>>
       \/ \E s0 \in IF flag THEN {workspace_cache} ELSE WorkspaceStore :
            /\ workspace_cache' = s0
            /\ IF prompts_confirmed_time = "unset"
               THEN /\ Raise(OtherError("TypeError: unsupported operand type(s) for -: 'float' and 'NoneType'"))
                    /\ UNCHANGED <<step_timings, steps_returned>>
               ELSE /\ step_timings' = record_step_timing(step_timings, STEP_KEYS[9])
                    /\ StepReturns(9, "step_10")
    /\ UNCHANGED <<config, reportVars, fleetVars, exit_code, verifierVars, objVars, user_cache, wsVars, timeVars, db_state, start_time, end_time,
                   errors, db_data, ui_data, outVars, steps_started>>
    /\ caught' = NoExc


\* ------------------------------------------------------------ steps 10, 11
\* variant: step 10 takes the id of the row it re-read
step_10_workspace_id_from_row(id, row) == IF row # NoWorkspace THEN row.id ELSE id

\* step 10 assigns self.workspace_ulid only (lines 813-814): the id is kept
step_10_workspace_id(id, row) == id

\* _step_10_verify_dashboard(): the ULID is taken from the URL only when it is
\* still unset; page.goto(), page.evaluate() and refresh_workspace() are not
\* guarded; ui_data is stored before the refresh
Step10 ==
    /\ pc = "step_10"
    /\ StepStarts(10)
    /\ \E url_ulid \in WorkspaceIds \cup {NoId}, s0 \in WorkspaceStore,
          failed \in {"no", "page", "select"} :
        /\ workspace_ulid' = IF workspace_ulid = NoId THEN url_ulid ELSE workspace_ulid
        /\ CASE failed = "page" ->
                  /\ Raise(OtherError("page error"))
                  /\ UNCHANGED <<ui_data, workspace_cache, step_timings, steps_returned>>
             [] failed = "select" ->
                  /\ Raise(OtherError("database error"))
                  /\ ui_data' = TRUE
                  /\ workspace_cache' = NoWorkspace
                  /\ UNCHANGED <<step_timings, steps_returned>>
             [] failed = "no" ->
                  /\ ui_data' = TRUE
                  /\ workspace_cache' = refresh_workspace(s0)
                  /\ step_timings' = record_step_timing(step_timings, STEP_KEYS[10])
                  /\ StepReturns(10, "step_11")
    /\ workspace_id' = step_10_workspace_id(workspace_id, workspace_cache')
    /\ UNCHANGED <<config, reportVars, fleetVars, exit_code, verifierVars, objVars, user_cache, timeVars, db_state, start_time,
                   end_time, errors, db_data, outVars>>
    /\ caught' = NoExc

\* full_verification(): user and workspace are always checked; the seven
\* other checks run only when the first get_workspace() found a row, and
\* verify_workspace_status("COMPLETED") refreshes the cache on the way.
\* rest_ok stands for the outcome of the count and snapshot checks.
full_verification_success(user, ws_first, ws_created, ws_status, rest_ok) ==
    /\ user # NoUser
    /\ ws_created # NoWorkspace
    /\ ws_first # NoWorkspace => (verify_workspace_status(ws_status, "COMPLETED") /\ rest_ok)

\* the cache full_verification() leaves behind
full_verification_cache(ws_first, ws_created, ws_status, ws_last) ==
    IF ws_first = NoWorkspace THEN ws_created
    ELSE get_workspace(refresh_workspace(ws_status), ws_last)

\* get_comprehensive_data(): {"error": ...} when there is no workspace
get_comprehensive_data(ws) == IF ws = NoWorkspace THEN "error" ELSE "data"

\* _step_11_full_verification(): the report is stored whatever it says
Step11 ==
    /\ pc = "step_11"
    /\ StepStarts(11)
    /\ \E u \in IF user_cache = NoUser THEN UserRows \cup {NoUser} ELSE {NoUser},
          s0 \in StoreIfEmpty(workspace_cache), s1 \in WorkspaceStore, rest_ok \in BOOLEAN,
          failed \in {"no", "verification", "data"} :
        LET ws_first == get_workspace(workspace_cache, s0) IN
        \E s0b \in StoreIfEmpty(ws_first) :
        LET ws_created == get_workspace(ws_first, s0b)
            ws_status == IF ws_first = NoWorkspace THEN NoWorkspace ELSE s1
        IN
        \E s2 \in StoreIfEmpty(ws_status) :
        LET user == get_user(user_cache, u)
            cache1 == full_verification_cache(ws_first, ws_created, ws_status, s2)
        IN
        \E s3 \in StoreIfEmpty(cache1) :
        CASE failed = "verification" ->
                  /\ Raise(OtherError("database error"))
                  /\ workspace_cache' = NoWorkspace
                  /\ UNCHANGED <<user_cache, db_state, db_data, step_timings, steps_returned>>
             [] failed = "data" ->
                  /\ Raise(OtherError("database error"))
                  /\ user_cache' = user
                  /\ workspace_cache' = get_workspace(cache1, s3)
                  /\ UNCHANGED <<db_state, db_data, step_timings, steps_returned>>
             [] failed = "no" ->
                  /\ user_cache' = user
                  /\ workspace_cache' = get_workspace(cache1, s3)
                  /\ db_data' = get_comprehensive_data(get_workspace(cache1, s3))
                  /\ db_state' = [present |-> TRUE,
                                  success |-> full_verification_success(user, ws_first, ws_created,
                                                                        ws_status, rest_ok)]
                  /\ step_timings' = record_step_timing(step_timings, STEP_KEYS[11])
                  /\ StepReturns(11, "success")
    /\ UNCHANGED <<config, reportVars, fleetVars, exit_code, verifierVars, objVars, wsVars, timeVars, start_time, end_time, errors, ui_data,
                   outVars>>
    /\ caught' = NoExc

\* ------------------------------------------------------- run(): the endings
\* variant: the result of a failed run does not carry the step identifier
CanaryResult_without_step(success, failed_step, error_message, report) ==
    [success |-> success, failed_step |-> None, error_message |-> error_message,
     db_state |-> report, workspace_id |-> workspace_id]

CanaryResult(success, failed_step, error_message, report) ==
    [success |-> success, failed_step |-> failed_step, error_message |-> error_message,
     db_state |-> report, workspace_id |-> workspace_id]

Call(op, arg) == [op |-> op, result |-> arg]

\* variant: the AUTO_CLEANUP test is missing
should_cleanup_ignoring_flag(cfg, verifier) == verifier # None

\* _cleanup_test_data() does nothing when AUTO_CLEANUP is off or there is no
\* verifier
should_cleanup(cfg, verifier) == cfg.AUTO_CLEANUP /\ verifier # None

\* variant: the test data are cleaned before the notification is sent
success_calls_cleanup_first(result, cleanup) ==
    (IF cleanup THEN <<[op |-> "cleanup_test_data", result |-> 0]>> ELSE <<>>)
        \o <<[op |-> "send_success_notification", result |-> result]>>

\* what the success path calls, in order: the notifier with the result, then
\* DBVerifier.cleanup_test_data() if the cleanup is to run
success_calls(result, cleanup) ==
    <<Call("send_success_notification", result)>>
        \o (IF cleanup THEN <<Call("cleanup_test_data", 0)>> ELSE <<>>)

\* variant: _cleanup_test_data() has no try/except, a raising cleanup escapes
cleanup_escapes_when_raised(outcome) == outcome = "raised"

\* _cleanup_test_data() wraps the call in try/except Exception and only logs
\* what the returned dict reports: no outcome of the cleanup leaves it
cleanup_escapes(outcome) == FALSE

\* variant: the result takes its success flag from the verification report
success_of_report(report) == report.present /\ report.success

\* "success=True" (line 109): the report of step 11 is carried, not consulted
success_of_run(report) == TRUE

\* the success path of run(): the result is built and the success
\* notification is sent.  send_success_notification() calls
\* sentry_sdk.set_context() outside any try/except: if that raises, the error
\* reaches run()'s "except Exception".  Then _cleanup_test_data(), whose
\* failures are logged only (the caches are filled if its SELECTs ran), and
\* "return result".
RunSuccess ==
    /\ pc = "success"
    /\ end_time' = TRUE
    /\ results' = Append(results, CanaryResult(success_of_run(db_state), None, None, db_state))
    /\ \/ \* the notification raises: on to "except Exception"
          /\ calls' = calls \o success_calls(Len(results'), FALSE)
          /\ Raise(OtherError("sentry error"))
          /\ UNCHANGED <<cacheVars, retval, cleanup_result>>
       \/ \* notified; no cleanup asked for; "return result"
          /\ ~should_cleanup(config, db_verifier)
          /\ calls' = calls \o success_calls(Len(results'), FALSE)
          /\ retval' = Len(results')
          /\ pc' = "finally"
          /\ UNCHANGED <<cacheVars, cleanup_result, exc, loopVars>>
       \/ \* notified; cleanup_test_data() is called
          /\ should_cleanup(config, db_verifier)
          /\ calls' = calls \o success_calls(Len(results'), TRUE)
          /\ \E outcome \in {"ok", "errors", "raised"}, s0 \in StoreIfEmpty(workspace_cache),
                u \in IF user_cache = NoUser THEN UserRows \cup {NoUser} ELSE {NoUser} :
               /\ cleanup_result' = outcome
               /\ IF outcome = "raised"
                  THEN \* a SELECT of get_workspace() / get_user() raised
                       /\ workspace_cache = NoWorkspace \/ user_cache = NoUser
                       /\ s0 = NoWorkspace /\ u = NoUser
                       /\ UNCHANGED cacheVars
                  ELSE /\ workspace_cache' = get_workspace(workspace_cache, s0)
                       /\ user_cache' = get_user(user_cache, u)
               /\ IF cleanup_escapes(outcome)
                  THEN Raise(OtherError("cleanup failed")) /\ UNCHANGED retval
                  ELSE /\ retval' = Len(results')
                       /\ pc' = "finally"
                       /\ UNCHANGED <<exc, loopVars>>
    /\ UNCHANGED <<config, reportVars, fleetVars, exit_code, verifierVars, objVars, wsVars, timeVars, db_state, start_time,
                   step_timings, errors, db_data, ui_data, returned, steps_started,
                   steps_returned>>
    /\ caught' = NoExc

\* variant: an error of the debugging snapshot leaves the handler
snapshot_failure_escapes_when_raised(verifier_present, snapshot_ok) ==
    verifier_present /\ ~snapshot_ok

\* full_verification() is called inside try/except Exception (lines 132-135):
\* its error is logged and db_state stays None
snapshot_failure_escapes(verifier_present, snapshot_ok) == FALSE

\* except CanaryTestError (lines 125-151): the error is recorded, the DB
\* snapshot is tried, the result carries e.step and e.message, the failure
\* alert is sent
ExceptCanaryTestError ==
    /\ pc = "except_CanaryTestError"
    /\ end_time' = TRUE
    /\ errors' = record_error(errors, exc.step, exc.message)
    /\ \E s1 \in IF db_verifier # None THEN WorkspaceStore ELSE {NoWorkspace},
          u \in IF db_verifier # None /\ user_cache = NoUser THEN UserRows \cup {NoUser} ELSE {NoUser},
          rest_ok \in BOOLEAN, snapshot_ok \in BOOLEAN :
        LET user == get_user(user_cache, u)
            ws_first == get_workspace(workspace_cache, s1)
            ws_status == IF ws_first = NoWorkspace THEN NoWorkspace ELSE s1
            report == IF db_verifier # None /\ snapshot_ok
                      THEN [present |-> TRUE,
                            success |-> full_verification_success(user, ws_first, ws_first,
                                                                  ws_status, rest_ok)]
                      ELSE NoReport
        IN
        IF snapshot_failure_escapes(db_verifier # None, snapshot_ok)
        THEN /\ Raise(OtherError("database error"))
             /\ UNCHANGED <<results, calls, retval, cacheVars>>
        ELSE /\ results' = Append(results, CanaryResult(FALSE, exc.step, exc.message, report))
             /\ IF db_verifier # None /\ snapshot_ok
                THEN /\ user_cache' = user
                     /\ workspace_cache' = full_verification_cache(ws_first, ws_first, ws_status, ws_status)
                ELSE UNCHANGED cacheVars
             /\ calls' = Append(calls, Call("send_failure_alert", Len(results')))
             /\ retval' = Len(results')
             /\ pc' = "finally"
             /\ UNCHANGED <<loopVars, exc>>
    /\ UNCHANGED <<config, reportVars, fleetVars, exit_code, verifierVars, objVars, wsVars, timeVars, db_state, start_time, step_timings,
                   db_data, ui_data, returned, steps_started, steps_returned,
                   cleanup_result>>
    /\ caught' = NoExc

\* except Exception (lines 153-170): tagged UNEXPECTED, message str(e)
ExceptException ==
    /\ pc = "except_Exception"
    /\ end_time' = TRUE
    /\ errors' = record_error(errors, "UNEXPECTED", exc.message)
    /\ results' = Append(results, CanaryResult(FALSE, "UNEXPECTED", exc.message, NoReport))
    /\ calls' = Append(calls, Call("send_failure_alert", Len(results')))
    /\ retval' = Len(results')
    /\ pc' = "finally"
    /\ UNCHANGED <<config, reportVars, fleetVars, exit_code, verifierVars, objVars, cacheVars, wsVars, timeVars, db_state, start_time,
                   step_timings, db_data, ui_data, loopVars, exc, returned, steps_started,
                   steps_returned, cleanup_result>>
    /\ caught' = NoExc

\* variant: cleanup() closes the page and nothing else
browser_cleanup_page_only(h, stop_at) ==
    [n \in HandleNames |->
        IF h[n] = "open" /\ n = "page" /\ 1 < stop_at THEN "closed" ELSE h[n]]

\* BrowserAutomation.cleanup(): page, context, browser, playwright are closed
\* in this order inside one try; the first close that raises ends the sequence
\* (stop_at is the position in CleanupOrder at which closing stopped, 5 = never)
browser_cleanup(h, stop_at) ==
    [n \in HandleNames |->
        IF h[n] = "open" /\ \E i \in 1..4 : CleanupOrder[i] = n /\ i < stop_at
        THEN "closed" ELSE h[n]]

\* finally: _cleanup() (lines 231-247) releases the browser if there is one,
\* then the DB verifier if there is one, each under its own try/except; then
\* run() hands back the result picked by the return statement
Finally ==
    /\ pc = "finally"
    /\ \E stop_at \in 1..5, dispose_ok \in BOOLEAN :
        /\ stop_at < 5 => browser # None /\ handles[CleanupOrder[stop_at]] = "open"
        /\ dispose_ok = FALSE => db_verifier # None
        /\ handles' = IF browser # None THEN browser_cleanup(handles, stop_at) ELSE handles
        /\ db_verifier' = IF db_verifier = None THEN None
                          ELSE IF dispose_ok THEN "closed" ELSE "close_failed"
        /\ calls' = calls \o (IF browser # None THEN <<Call("browser.cleanup", stop_at)>> ELSE <<>>)
                          \o (IF db_verifier # None
                              THEN <<Call("db.close", IF dispose_ok THEN 1 ELSE 0)>> ELSE <<>>)
    /\ returned' = retval
    /\ pc' = "done"
    /\ UNCHANGED <<config, reportVars, fleetVars, exit_code, verifierVars, browser, cacheVars, wsVars, timeVars, db_state, metricVars, loopVars,
                   exc, results, retval, steps_started, steps_returned, cleanup_result>>
    /\ caught' = NoExc

\* --------------------------------------------------------------------- Next
\* variant: the process reports success whatever the result is
exit_code_zero(success) == 0

\* sys.exit(0) for a successful result, sys.exit(1) otherwise
exit_code_for(success) == IF success THEN 0 ELSE 1

\* __main__: run_canary_test_sync() has returned the result of the one run;
\* the summary line is printed and the process exits (once)
Main ==
    /\ pc = "done"
    /\ exit_code = NoExit
    /\ db = NoDatabase
    /\ caches = NoCaches
    /\ answer = NoAnswer
    /\ exit_code' = exit_code_for(results[returned].success)
    /\ UNCHANGED <<pc, config, reportVars, fleetVars, verifierVars, objVars, cacheVars, wsVars, timeVars, db_state,
                   metricVars, loopVars, exc, outVars, steps_started, steps_returned, caught>>

Next ==
    \/ RunStart
    \/ Setup
    \/ Step01
    \/ Step02
    \/ Step03
    \/ Step04
    \/ Step05
    \/ Step06Begin
    \/ Step06Poll
    \/ Step06Finish
    \/ Step07Begin
    \/ Step07CategoriesPoll
    \/ Step07CategoriesDone
    \/ Step07PromptsPoll
    \/ Step07Finish
    \/ Step08Begin
    \/ Step08PromptsPoll
    \/ Step08Approve
    \/ Step08StatusPoll
    \/ Step08Finish
    \/ Step09Begin
    \/ Step09SnapshotPoll
    \/ Step09SnapshotDone
    \/ Step09WorkspacePoll
    \/ Step09Finish
    \/ Step10
    \/ Step11
    \/ RunSuccess
    \/ ExceptCanaryTestError
    \/ ExceptException
    \/ Finally
    \/ Main

Spec == Init /\ [][Next]_vars

\* ==================================================================
\* Properties of run()
\* ==================================================================
HandlerLabels == {"except_CanaryTestError", "except_Exception", "finally", "done"}

\* positions in calls of the calls of one of the operations ops
CallsOf(ops) == {i \in 1..Len(calls) : calls[i].op \in ops}

NotifierOps == {"send_success_notification", "send_failure_alert"}
ReleaseOps == {"browser.cleanup", "db.close"}

\* the wait whose loop is at label has used up its timeout without a break
WaitExpired(label, timeout) == pc = label /\ ~while_waited(waited, timeout)

\* ------------------------------------------------------------------ C1
\* C1: the steps are entered in the order 1, 2, ..., 11, step k+1 only after
\* step k returned; once a CanaryTestError has left a step, the run is in its
\* handler or beyond, the step that raised is the last one entered, and the
\* result run() returns has success = FALSE and carries the error's step
\* identifier and message.
C1_StepsInOrderAndStepErrorFails ==
    /\ Len(steps_started) <= 11
    /\ \A i \in 1..Len(steps_started) :
          /\ steps_started[i] = i
          /\ i > 1 => (i - 1) \in steps_returned
    /\ steps_returned \subseteq {steps_started[i] : i \in 1..Len(steps_started)}
    /\ exc.type = "CanaryTestError" =>
          /\ pc \in {"except_CanaryTestError", "finally", "done"}
          /\ Len(steps_started) >= 1
          /\ Len(steps_started) \notin steps_returned
          /\ pc = "done" =>
                /\ returned \in 1..Len(results)
                /\ results[returned].success = FALSE
                /\ results[returned].failed_step = exc.step
                /\ results[returned].error_message = exc.message

\* a run that failed in step 7 (the category wait ran out) has returned
C1_Witness ==
    /\ pc = "done"
    /\ exc.type = "CanaryTestError"
    /\ exc.step = "STEP_07_WAIT_CATEGORIES"
    /\ Len(steps_started) = 7
    /\ results[returned].failed_step = "STEP_07_WAIT_CATEGORIES"

\* ------------------------------------------------------------------ C2
\* C2: once an exception that is not a CanaryTestError has left setup or a
\* step, the run is in the "except Exception" handler or beyond, and run()
\* returns a result (it never raises) with success = FALSE, failed_step
\* "UNEXPECTED" and the exception's text.
C2_OtherExceptionIsUnexpected ==
    /\ exc.type = "Exception" =>
          /\ pc \in {"except_Exception", "finally", "done"}
          /\ pc = "done" =>
                /\ results[returned].success = FALSE
                /\ results[returned].failed_step = "UNEXPECTED"
                /\ results[returned].error_message = exc.message
    /\ pc = "done" => returned \in 1..Len(results)

\* a run in which step 6 raised a database error has returned
C2_Witness ==
    /\ pc = "done"
    /\ exc.type = "Exception"
    /\ Len(steps_started) = 6
    /\ 6 \notin steps_returned
    /\ results[returned].failed_step = "UNEXPECTED"

\* ------------------------------------------------------------------ C3
\* C3: when the run has ended, every step that was entered has its duration
\* in step_timings, the step that failed included.
C3_EveryStartedStepIsTimed ==
    pc = "done" =>
        \A i \in 1..Len(steps_started) : InSeq(step_timings, STEP_KEYS[steps_started[i]])

\* ------------------------------------------------------------------ C4
\* C4: STEP_06_WORKSPACE_CREATED is raised only when the workspace wait of
\* step 6 has slept its whole 60 s in 30 polls without finding a row, and it
\* is raised whenever that wait runs out; the run then returns a failed result
\* with this step identifier and no step after 6 is entered.
C4_WorkspaceNeverFound ==
    /\ [](exc.step = "STEP_06_WORKSPACE_CREATED" =>
             /\ pc \in {"except_CanaryTestError", "finally", "done"}
             /\ Len(steps_started) = 6
             /\ workspace_id = NoId
             /\ pc = "done" =>
                   /\ results[returned].success = FALSE
                   /\ results[returned].failed_step = "STEP_06_WORKSPACE_CREATED")
    /\ [][/\ WaitExpired("step_06_wait", WORKSPACE_MAX_WAIT) =>
                /\ pc' = "except_CanaryTestError"
                /\ exc'.step = "STEP_06_WORKSPACE_CREATED"
          /\ (exc.step # "STEP_06_WORKSPACE_CREATED" /\ exc'.step = "STEP_06_WORKSPACE_CREATED") =>
                /\ pc = "step_06_wait"
                /\ waited = 60
                /\ polls = 30
                /\ workspace_cache = NoWorkspace
          /\ Len(steps_started) > 6 => exc'.step # "STEP_06_WORKSPACE_CREATED"]_vars

\* a run whose workspace wait ran out has returned
C4_Witness ==
    /\ pc = "done"
    /\ exc.step = "STEP_06_WORKSPACE_CREATED"
    /\ results[returned].failed_step = "STEP_06_WORKSPACE_CREATED"
    /\ steps_started = <<1, 2, 3, 4, 5, 6>>

\* ------------------------------------------------------------------ C5
\* the five waits C5 lists, each with its timeout
ListedWaitExpired ==
    \/ WaitExpired("step_07_prompts", PROMPTS_TIMEOUT)
    \/ WaitExpired("step_08_prompts", CATEGORY_WAIT_TIMEOUT)
    \/ WaitExpired("step_08_status", INTER_STEP_2_TIMEOUT)
    \/ WaitExpired("step_09_snapshot", SNAPSHOT_WAIT_TIMEOUT)
    \/ WaitExpired("step_09_workspace", WORKSPACE_COMPLETED_TIMEOUT)

\* C5 as stated: when the prompts wait of step 7, the prompts wait or the
\* status wait of step 8, or the snapshot wait or the workspace wait of step 9
\* has run out, the step fails and the run does not go on.  (Stated with any
\* error accepted as the failure, so that only a step that carries on after
\* the expired wait refutes it.)
C5_EveryExpiredWaitFailsItsStep ==
    [][ListedWaitExpired => pc' \in {"except_CanaryTestError", "except_Exception"}]_vars

\* C5 amended: the workspace wait of step 6 and the category wait of step 7
\* are the two waits whose expiry fails the step (STEP_06_WORKSPACE_CREATED,
\* STEP_07_WAIT_CATEGORIES); when one of the five other waits runs out no
\* CanaryTestError is raised and the step goes on with its next statement:
\* step 7 and step 9 to their last statements (which return to run() unless
\* an unguarded call raises), step 8 to the approve click and to its return,
\* step 9 from the snapshot wait to the workspace wait.
C5_OnlyTwoWaitsFailOnExpiry ==
    [][/\ WaitExpired("step_06_wait", WORKSPACE_MAX_WAIT) =>
             (pc' = "except_CanaryTestError" /\ exc'.step = "STEP_06_WORKSPACE_CREATED")
       /\ WaitExpired("step_07_categories", CATEGORY_WAIT_TIMEOUT) =>
             (pc' = "except_CanaryTestError" /\ exc'.step = "STEP_07_WAIT_CATEGORIES")
       /\ ListedWaitExpired => (pc' # "except_CanaryTestError" /\ exc'.type # "CanaryTestError")
       /\ WaitExpired("step_07_prompts", PROMPTS_TIMEOUT) => pc' \in {"step_08", "except_Exception"}
       /\ WaitExpired("step_08_prompts", CATEGORY_WAIT_TIMEOUT) => pc' = "step_08_status"
       /\ WaitExpired("step_08_status", INTER_STEP_2_TIMEOUT) => pc' = "step_09"
       /\ WaitExpired("step_09_snapshot", SNAPSHOT_WAIT_TIMEOUT) => pc' = "step_09_workspace"
       /\ WaitExpired("step_09_workspace", WORKSPACE_COMPLETED_TIMEOUT) =>
             pc' \in {"step_10", "except_Exception"}]_vars

\* step 7 has returned and step 8 is about to start although the prompts wait
\* of step 7 ran out (prompts_ready_time is set only when the prompts are seen)
C5_Witness ==
    /\ pc = "step_08"
    /\ 7 \in steps_returned
    /\ prompts_ready_time = "unset"
    /\ exc = NoExc

\* ------------------------------------------------------------------ C6
\* C6 as stated: no error is ever caught inside a step.
C6_NoErrorCaughtInsideAStep == caught = NoExc

\* C6 amended: a CanaryTestError that leaves a step method ends the run with
\* a failed result carrying its step identifier; the errors caught inside a
\* step are the CanaryTestError of click_continue_prompts() in step 8 (the
\* step goes on to its status wait without a confirmation time), the
\* CanaryTestError of wait_for_snapshot_loading() in step 9 (the step goes on
\* to its snapshot wait) and whatever submit_otp() raises in step 5 (the step
\* returns normally).
C6_StepErrorsCaughtOnlyInSteps589 ==
    /\ caught.type = "CanaryTestError" =>
          /\ exc = NoExc
          /\ \/ caught.step = "STEP_08_PROMPTS_CONTINUE" /\ pc = "step_08_status"
                   /\ Len(steps_started) = 8
             \/ caught.step = "STEP_09_SNAPSHOT_WAIT" /\ pc = "step_09_snapshot"
                   /\ Len(steps_started) = 9
    /\ caught.type = "Exception" =>
          /\ exc = NoExc
          /\ pc = "step_06"
          /\ Len(steps_started) = 5
          /\ ~config.SKIP_OTP_VERIFICATION
    /\ exc.type = "CanaryTestError" =>
          /\ caught = NoExc
          /\ pc \in {"except_CanaryTestError", "finally", "done"}
          /\ pc \in {"finally", "done"} =>
                /\ results[Len(results)].failed_step = exc.step
                /\ \E i \in CallsOf({"send_failure_alert"}) : calls[i].result = Len(results)

\* the approve click of step 8 failed and step 8 is in its status wait
C6_Witness ==
    /\ caught.type = "CanaryTestError"
    /\ caught.step = "STEP_08_PROMPTS_CONTINUE"
    /\ pc = "step_08_status"
    /\ exc = NoExc

C8_OneResultOneNotification ==
    pc = "done" =>
        /\ Len(results) = 1
        /\ Cardinality(CallsOf(NotifierOps)) = 1
        /\ \A i \in CallsOf(NotifierOps) :
              /\ calls[i].result = returned
              /\ calls[i].op = IF results[returned].success
                               THEN "send_success_notification" ELSE "send_failure_alert"

\* ------------------------------------------------------------------ C9
\* C9: when run() has returned, cleanup_test_data() was called (once) if and
\* only if the returned result is a success and AUTO_CLEANUP is on; at no
\* moment has it been called in a run that is being failed.
C9_CleanupIffSuccessAndAutoCleanup ==
    /\ Cardinality(CallsOf({"cleanup_test_data"})) <= 1
    /\ CallsOf({"cleanup_test_data"}) # {} =>
          /\ config.AUTO_CLEANUP
          /\ exc = NoExc
          /\ Len(results) = 1
          /\ results[1].success
    /\ pc = "done" =>
          (CallsOf({"cleanup_test_data"}) # {}
              <=> (results[returned].success /\ config.AUTO_CLEANUP))

\* a successful run with AUTO_CLEANUP on has returned, its test data cleaned
C9_Witness ==
    /\ pc = "done"
    /\ config.AUTO_CLEANUP
    /\ results[returned].success
    /\ CallsOf({"cleanup_test_data"}) # {}

\* ------------------------------------------------------------------ C10
\* C10: a call of cleanup_test_data() comes right after the call of
\* send_success_notification returned, no notifier call follows it, and the
\* release calls (browser cleanup, DB close) come after every notifier call
\* and after the cleanup.
C10_CleanupAfterNotificationBeforeRelease ==
    /\ \A i \in CallsOf({"cleanup_test_data"}) :
          /\ i > 1
          /\ calls[i - 1].op = "send_success_notification"
          /\ \A j \in CallsOf(NotifierOps) : j < i
    /\ \A r \in CallsOf(ReleaseOps) :
          \A j \in CallsOf(NotifierOps \cup {"cleanup_test_data"}) : j < r

\* a successful run has returned: notified, then cleaned, then released
C10_Witness ==
    /\ pc = "done"
    /\ Len(calls) = 4
    /\ calls[1].op = "send_success_notification"
    /\ calls[2].op = "cleanup_test_data"
    /\ calls[3].op = "browser.cleanup"
    /\ calls[4].op = "db.close"

\* ------------------------------------------------------------------ C11
\* C11: once cleanup_test_data() has been called, however it ended (done,
\* errors reported, exception raised), the run is on its way to return the
\* one result it built, a success, with no error entry; and a run that ends
\* with no exception handled returns that success with no error entry
\* whatever the closing of the browser and of the DB connection did.
C11_CleanupAndReleaseFailuresKeepSuccess ==
    /\ cleanup_result # "none" =>
          /\ exc = NoExc
          /\ pc \in {"finally", "done"}
          /\ errors = <<>>
          /\ Len(results) = 1
          /\ results[1].success
          /\ retval = 1
    /\ (pc = "done" /\ exc = NoExc) =>
          /\ 11 \in steps_returned
          /\ returned = 1
          /\ Len(results) = 1
          /\ results[returned].success
          /\ errors = <<>>

\* a successful run has returned although its cleanup raised, a close of the
\* browser raised and the disposal of the DB engine raised
C11_Witness ==
    /\ pc = "done"
    /\ cleanup_result = "raised"
    /\ \E i \in CallsOf({"browser.cleanup"}) : calls[i].result < 5
    /\ \E i \in CallsOf({"db.close"}) : calls[i].result = 0
    /\ results[returned].success
    /\ errors = <<>>

\* ------------------------------------------------------------------ C12
\* keys recorded in step_timings that are not step identifiers
EXTRA_TIMING_KEYS == {"setup", "loading_1_form_to_prompts", "loading_2_confirm_to_dashboard"}

IsStepKey(k) == \E n \in 1..11 : STEP_KEYS[n] = k

\* position of key k in step_timings, 0 if it is not there
TimingPos(k) ==
    IF InSeq(step_timings, k) THEN CHOOSE i \in 1..Len(step_timings) : step_timings[i] = k ELSE 0

\* C12 as stated: at every moment step_timings holds the identifiers of the
\* steps executed so far, in the order 1..11, and nothing else.
C12_TimingsAreExactlyTheStepKeys ==
    step_timings = SubSeq(STEP_KEYS, 1, Cardinality(steps_returned))

\* C12 amended: no key is recorded twice; the step identifiers recorded are
\* those of the steps that returned, in the order 1..11 (a step that raised
\* has no entry); the other keys are "setup", first of all, Loading-1 between
\* the entries of steps 6 and 7 and Loading-2 between the entries of steps 8
\* and 9; entries are only ever added at the end.
C12_StepKeysInOrderAmongExtraKeys ==
    /\ [](/\ \A i, j \in 1..Len(step_timings) : step_timings[i] = step_timings[j] => i = j
          /\ SelectSeq(step_timings, IsStepKey) = SubSeq(STEP_KEYS, 1, Cardinality(steps_returned))
          /\ \A i \in 1..Len(step_timings) :
                IsStepKey(step_timings[i]) \/ step_timings[i] \in EXTRA_TIMING_KEYS
          /\ Len(step_timings) >= 1 => step_timings[1] = "setup"
          /\ TimingPos("loading_1_form_to_prompts") > 0 =>
                /\ TimingPos("loading_1_form_to_prompts") = TimingPos(STEP_KEYS[6]) + 1
                /\ 6 \in steps_returned
          /\ TimingPos(STEP_KEYS[7]) > 0 =>
                TimingPos(STEP_KEYS[7]) > TimingPos("loading_1_form_to_prompts")
          /\ TimingPos("loading_2_confirm_to_dashboard") > 0 =>
                /\ TimingPos("loading_2_confirm_to_dashboard") = TimingPos(STEP_KEYS[8]) + 1
                /\ 8 \in steps_returned
          /\ TimingPos(STEP_KEYS[9]) > 0 =>
                TimingPos(STEP_KEYS[9]) > TimingPos("loading_2_confirm_to_dashboard"))
    /\ [][\/ step_timings' = step_timings
          \/ \E k \in EXTRA_TIMING_KEYS \cup {STEP_KEYS[n] : n \in 1..11} :
                step_timings' = Append(step_timings, k)]_vars

\* a complete run: the 11 step entries and the three other keys
C12_Witness ==
    /\ pc = "done"
    /\ Len(step_timings) = 14
    /\ step_timings[1] = "setup"
    /\ step_timings[8] = "loading_1_form_to_prompts"
    /\ step_timings[11] = "loading_2_confirm_to_dashboard"
    /\ step_timings[14] = STEP_KEYS[11]

\* ------------------------------------------------------------------ C13
\* a poll tick of one of the seven waits is about to run
InPollTick ==
    \/ pc = "step_06_wait" /\ while_waited(waited, WORKSPACE_MAX_WAIT)
    \/ pc = "step_07_categories" /\ while_waited(waited, CATEGORY_WAIT_TIMEOUT)
    \/ pc = "step_07_prompts" /\ while_waited(waited, PROMPTS_TIMEOUT)
    \/ pc = "step_08_prompts" /\ while_waited(waited, CATEGORY_WAIT_TIMEOUT)
    \/ pc = "step_08_status" /\ while_waited(waited, INTER_STEP_2_TIMEOUT)
    \/ pc = "step_09_snapshot" /\ while_waited(waited, SNAPSHOT_WAIT_TIMEOUT)
    \/ pc = "step_09_workspace" /\ while_waited(waited, WORKSPACE_COMPLETED_TIMEOUT)

\* C13: a poll tick never ends the wait with an error: after the tick the
\* wait is still polling or has seen its condition, whatever the queries of
\* the tick did.
C13_QueryErrorIsAFailedProbe ==
    [][InPollTick => (exc' = NoExc /\ pc' \notin {"except_Exception", "except_CanaryTestError"})]_vars

\* ==================================================================
\* One polling wait, for any timeout and interval
\* ==================================================================
\* The waits of steps 7, 8 and 9 take their timeout and their interval from
\* the configuration (CATEGORY_WAIT_TIMEOUT, SNAPSHOT_WAIT_TIMEOUT,
\* POLLING_INTERVAL).  This specification runs the loop they share,
\*     waited = 0
\*     while waited < timeout:
\*         if <condition>: break
\*         sleep(interval); waited += interval
\* for every timeout and interval within the bounds, the condition being an
\* input of each tick.
PollInit ==
    /\ pc = "poll"
    /\ config \in [timeout : 1..MaxTimeout, interval : 1..MaxInterval]
    /\ waited = 0
    /\ polls = 0
    /\ flag = FALSE
    /\ browser = None
    /\ handles = [h \in HandleNames |-> "none"]
    /\ db_verifier = None
    /\ user_cache = NoUser
    /\ workspace_cache = NoWorkspace
    /\ workspace_id = NoId
    /\ workspace_ulid = NoId
    /\ form_submitted_time = "unset"
    /\ prompts_ready_time = "unset"
    /\ prompts_confirmed_time = "unset"
    /\ dashboard_ready_time = "unset"
    /\ db_state = NoReport
    /\ start_time = FALSE
    /\ end_time = FALSE
    /\ step_timings = <<>>
    /\ errors = <<>>
    /\ db_data = "unset"
    /\ ui_data = FALSE
    /\ exc = NoExc
    /\ results = <<>>
    /\ calls = <<>>
    /\ steps_started = <<>>
    /\ steps_returned = {}
    /\ caught = NoExc
    /\ retval = 0
    /\ returned = 0
    /\ cleanup_result = "none"
    /\ report_in = NoReportInput
    /\ report_out = NoReportOutput
    /\ clock = 0
    /\ tests = <<>>
    /\ workspaces = <<>>
    /\ exit_code = NoExit
    /\ db = NoDatabase
    /\ caches = NoCaches
    /\ answer = NoAnswer

pollFrame == <<config, reportVars, fleetVars, exit_code, verifierVars, objVars, cacheVars, wsVars, timeVars, db_state, metricVars, exc,
               outVars, steps_started, steps_returned, caught>>

\* one iteration: the condition is checked; on success "break", otherwise
\* sleep one interval and count it
PollTick ==
    /\ pc = "poll"
    /\ while_waited(waited, config.timeout)
    /\ polls' = polls + 1
    /\ \E condition \in BOOLEAN :
        IF condition
        THEN /\ flag' = TRUE
             /\ waited' = waited
             /\ pc' = "poll_done"
        ELSE /\ flag' = flag
             /\ waited' = waited + config.interval
             /\ pc' = pc
    /\ UNCHANGED pollFrame

\* the loop condition fails: the wait is over without success
PollExpire ==
    /\ pc = "poll"
    /\ ~while_waited(waited, config.timeout)
    /\ pc' = "poll_done"
    /\ UNCHANGED <<waited, polls, flag>>
    /\ UNCHANGED pollFrame

PollNext ==
    \/ PollTick
    \/ PollExpire

PollSpec == PollInit /\ [][PollNext]_vars

\* ------------------------------------------------------------------ C14
\* C14: a wait with timeout T and interval P that ended without its condition
\* ever succeeding has accumulated a wait time in [T, T+P) in exactly
\* ceil(T/P) checks; no check is made once the wait time has reached T, and
\* the wait does not end unsuccessfully before that.
C14_ExpiryAfterCeilChecks ==
    /\ [](pc = "poll_done" /\ ~flag =>
             /\ waited >= config.timeout
             /\ waited < config.timeout + config.interval
             /\ polls = (config.timeout + config.interval - 1) \div config.interval
             /\ waited = polls * config.interval)
    /\ [][/\ polls' # polls => (waited < config.timeout /\ polls' = polls + 1)
          /\ (pc = "poll" /\ pc' = "poll_done" /\ ~flag') => waited >= config.timeout]_vars

\* a wait of timeout 7 and interval 3 has ended unsuccessfully: 3 checks, 9 s
C14_Witness ==
    /\ pc = "poll_done"
    /\ ~flag
    /\ config.timeout = 7
    /\ config.interval = 3
    /\ polls = 3
    /\ waited = 9

\* ------------------------------------------------------------------ C15
\* the labels of the seven polling loops and of the statements reached by
\* their "break"
WaitLabels == {"step_06_wait", "step_07_categories", "step_07_prompts", "step_08_prompts",
               "step_08_status", "step_09_snapshot", "step_09_workspace"}
BreakLabels == {"step_06_found", "step_07_categories_done", "step_07_prompts_done",
                "step_08_prompts_done", "step_08_status_done", "step_09_snapshot_done",
                "step_09_workspace_done"}

\* the sleep between two checks of the wait at label l
SleepOf(l) == IF l \in {"step_06_wait", "step_06_found"} THEN WORKSPACE_POLL_SLEEP ELSE POLLING_INTERVAL

\* C15: in each of the seven waits every sleep follows a check (the wait time
\* is the sleep times the number of failed checks, so nothing is slept before
\* the first check), and a wait whose first check succeeds is left after that
\* one check with a wait time of zero.
C15_FirstCheckImmediate ==
    /\ [](/\ pc \in WaitLabels => waited = polls * SleepOf(pc)
          /\ pc \in BreakLabels =>
                /\ polls >= 1
                /\ waited = (polls - 1) * SleepOf(pc)
                /\ polls = 1 => waited = 0)
    /\ [][(pc \in WaitLabels /\ polls = 0 /\ pc' \in BreakLabels) =>
             (waited = 0 /\ waited' = 0 /\ polls' = 1)]_vars

\* the prompts wait of step 8 has been left by its first check
C15_Witness ==
    /\ pc = "step_08_prompts_done"
    /\ polls = 1
    /\ waited = 0
    /\ flag

\* ====================================================== the Slack report
\* AlertManager._build_detailed_slack_message() as a function of the result it
\* is given.  ReportSpec draws a result a run can hand over and applies it.
\* Durations are whole seconds.

\* ---------------------------------------------------------------- bounds
MaxPrompts == 21
MaxFailed == 2
MaxCompetitors == 1
MaxDuration == 601

\* ------------------------------------------------------ program constants
VERIFY_MIN_PROMPTS == 15
CRITICAL_PROMPTS == 15
HEALTHY_PROMPTS == 20
SLOW_RATIO == 2
INLINE_PERCENT == 20

BASELINE_TIMINGS ==
    ("step_01_landing" :> 3) @@ ("step_02_click_get_report" :> 3) @@
    ("step_03_fill_email" :> 45) @@ ("step_04_verify_user" :> 3) @@
    ("step_05_fill_otp" :> 70) @@ ("step_06_workspace_details" :> 5) @@
    ("step_07_wait_categories" :> 60) @@ ("step_08_approve_prompts" :> 90) @@
    ("step_09_wait_snapshot" :> 300) @@ ("step_10_verify_dashboard" :> 5) @@
    ("step_11_full_verification" :> 2)

\* BASELINE_TIMINGS.get(step, 0)
baseline_of(step) == IF step \in DOMAIN BASELINE_TIMINGS THEN BASELINE_TIMINGS[step] ELSE 0

\* ------------------------------------------------- what the database holds
\* the rows the reporting queries read, once the workspace row is found
DBContents ==
    {d \in [status : WorkspaceStatuses, prompts_count : 0..MaxPrompts,
            snapshot : SnapshotStatuses \cup {NoSnapshot}, failed : 0..MaxFailed,
            competitors_count : 0..MaxCompetitors] :
        d.snapshot = NoSnapshot => d.failed = 0}

\* get_comprehensive_data(): the dict stored in metrics.db_data by step 11
collect_db_data(found, d) ==
    IF ~found THEN [NoData EXCEPT !.kind = "error"]
    ELSE [kind |-> "data", workspace_status |-> d.status, prompts_count |-> d.prompts_count,
          snapshot |-> d.snapshot, snapshot_prompts_status |-> (d.snapshot # NoSnapshot),
          failed |-> d.failed, competitors_count |-> d.competitors_count]

\* full_verification()["results"]: the entries the report reads; "none" is None
verification_results(found, d) ==
    IF ~found THEN [NoVerification EXCEPT !.present = TRUE]
    ELSE [present |-> TRUE,
          workspace_status |-> IF d.status = "COMPLETED" THEN "ok" ELSE "failed",
          actual_status |-> d.status,
          prompts |-> IF d.prompts_count >= VERIFY_MIN_PROMPTS THEN "ok" ELSE "failed",
          prompts_count |-> d.prompts_count,
          snapshot |-> IF d.snapshot # NoSnapshot THEN "ok" ELSE "failed",
          snapshot_completed |-> IF d.snapshot = "COMPLETED" THEN "ok" ELSE "failed"]

\* ------------------------------------------------------------ the findings
Finding(severity, about, text, number) ==
    [severity |-> severity, about |-> about, text |-> text, number |-> number]

\* "Anomali tespit edilmedi - tum sistemler normal"
NORMAL == Finding("normal", "none", "", 0)

\* `db_data and not db_data.get("error")`
usable(data) == data.kind = "data"

\* variant: a count equal to the minimum is still critical
prompts_critical_inclusive(count) == count <= CRITICAL_PROMPTS

prompts_critical(count) == count < CRITICAL_PROMPTS

\* variant: the low-count warning has no upper threshold
prompts_low_unbounded(count) == TRUE

prompts_low(count) == count < HEALTHY_PROMPTS

\* ratio = duration / baseline; ratio > 2.0
is_slow(duration, baseline) == duration > SLOW_RATIO * baseline

\* ---- Python floats: the binary64 arithmetic behind `ratio` and the percentage
\* A positive float is [whole, bits]: its integer part and the binary digits
\* after the point, MANTISSA_BITS significant digits in all.
MANTISSA_BITS == 53

RECURSIVE BitLen(_)
BitLen(n) == IF n = 0 THEN 0 ELSE 1 + BitLen(n \div 2)

\* 2^n modulo b, by repeated squaring
RECURSIVE Pow2Mod(_, _)
Pow2Mod(n, b) ==
    IF n = 0 THEN 1 % b
    ELSE LET h == Pow2Mod(n \div 2, b)
         IN (h * h * (IF n % 2 = 1 THEN 2 ELSE 1)) % b

\* the first n binary digits of r / b (0 <= r < b) and the remainder left over:
\* long division, the remainder before digit i being r * 2^(i-1) modulo b
fraction_bits(r, b, n) ==
    [bits |-> [i \in 1..n |-> IF 2 * ((r * Pow2Mod(i - 1, b)) % b) >= b THEN 1 ELSE 0],
     rest |-> (r * Pow2Mod(n, b)) % b]

\* one unit more in the last place; carry = 1 when every digit was 1
increment(bits) ==
    LET zeros == {i \in 1..Len(bits) : bits[i] = 0} IN
    IF zeros = {}
    THEN [carry |-> 1, bits |-> [i \in 1..Len(bits) |-> 0]]
    ELSE LET j == CHOOSE i \in zeros : \A z \in zeros : z <= i
         IN [carry |-> 0,
             bits |-> [i \in 1..Len(bits) |-> IF i < j THEN bits[i] ELSE IF i = j THEN 1 ELSE 0]]

\* round to nearest, ties to even; `more` compares what is dropped with half a
\* unit in the last place: -1 below, 0 equal, 1 above
round_nearest_even(whole, bits, more) ==
    LET last == IF Len(bits) > 0 THEN bits[Len(bits)] ELSE whole % 2
        inc == increment(bits)
    IN IF more > 0 \/ (more = 0 /\ last = 1)
       THEN [whole |-> whole + inc.carry, bits |-> inc.bits]
       ELSE [whole |-> whole, bits |-> bits]

\* d / b for whole d >= b > 0
float_div(d, b) ==
    LET whole == d \div b
        f == fraction_bits(d % b, b, MANTISSA_BITS - BitLen(whole))
        more == IF 2 * f.rest > b THEN 1 ELSE IF 2 * f.rest = b THEN 0 ELSE 0 - 1
    IN round_nearest_even(whole, f.bits, more)

\* x - 1 for x >= 2: exact
float_sub_one(x) == [whole |-> x.whole - 1, bits |-> x.bits]

\* the digits of k * 0.bits and the carry into the integer part: schoolbook
\* multiplication from the last digit up, eight binary digits at a time
RECURSIVE times_from(_, _, _)
times_from(groups, c, k) ==
    IF c > Len(groups) THEN [carry |-> 0, groups |-> <<>>]
    ELSE LET low == times_from(groups, c + 1, k)
             t == k * groups[c] + low.carry
         IN [carry |-> t \div 256, groups |-> <<t % 256>> \o low.groups]

times(bits, k) ==
    LET n == Len(bits)
        m == (n + 7) \div 8
        pad == 8 * m - n
        digit(i) == IF i <= pad THEN 0 ELSE bits[i - pad]
        groups == [c \in 1..m |->
                      128 * digit(8 * c - 7) + 64 * digit(8 * c - 6) + 32 * digit(8 * c - 5)
                      + 16 * digit(8 * c - 4) + 8 * digit(8 * c - 3) + 4 * digit(8 * c - 2)
                      + 2 * digit(8 * c - 1) + digit(8 * c)]
        p == times_from(groups, 1, k)
        out(i) == (p.groups[((i - 1) \div 8) + 1] \div (2 ^ (7 - ((i - 1) % 8)))) % 2
        top == IF pad = 0 THEN 0 ELSE p.groups[1] \div (2 ^ (8 - pad))
    IN [carry |-> p.carry * (2 ^ pad) + top,
        bits |-> [i \in 1..n |-> out(i + pad)]]

\* x * k for a whole k > 0 and x >= 1
float_mul(x, k) ==
    LET p == times(x.bits, k)
        whole == k * x.whole + p.carry
        keep == MANTISSA_BITS - BitLen(whole)
        kept == SubSeq(p.bits, 1, keep)
        dropped == SubSeq(p.bits, keep + 1, Len(p.bits))
        more == IF dropped = <<>> \/ dropped[1] = 0 THEN 0 - 1
                ELSE IF \E i \in 2..Len(dropped) : dropped[i] = 1 THEN 1
                ELSE 0
    IN round_nearest_even(whole, kept, more)

\* int(x): truncation
float_int(x) == x.whole

\* int((ratio - 1) * 100) with ratio = duration / baseline, for ratio > 2
overrun_percent(duration, baseline) ==
    float_int(float_mul(float_sub_one(float_div(duration, baseline)), 100))

\* variant: a single failed snapshot prompt is tolerated
has_failed_several(failed) == failed > 1

\* `if failed > 0`
has_failed(failed) == failed > 0

When(cond, finding) == IF cond THEN <<finding>> ELSE <<>>

\* the anomalies read from the collected data (lines 693-726)
db_anomalies(dd) ==
    When(dd.workspace_status # "COMPLETED",
         Finding("critical", "workspace_status", dd.workspace_status, 0))
    \o When(prompts_critical(dd.prompts_count),
            Finding("critical", "prompts", "", dd.prompts_count))
    \o When(dd.snapshot = NoSnapshot, Finding("critical", "snapshot", NoSnapshot, 0))
    \o When(dd.snapshot # NoSnapshot /\ dd.snapshot # "COMPLETED",
            Finding("critical", "snapshot", dd.snapshot, 0))
    \o When(dd.snapshot_prompts_status /\ has_failed(dd.failed),
            Finding("critical", "snapshot_prompts", "", dd.failed))

db_warnings(dd) ==
    When(~prompts_critical(dd.prompts_count) /\ prompts_low(dd.prompts_count),
         Finding("warning", "prompts", "", dd.prompts_count))
    \o When(dd.competitors_count = 0, Finding("warning", "competitors", "", 0))

\* the fallback to result.db_state (lines 729-745)
fallback_anomalies(st) ==
    When(st.workspace_status = "failed",
         Finding("critical", "workspace_status", st.actual_status, 0))
    \o When(st.prompts = "failed", Finding("critical", "prompts", "", st.prompts_count))
    \o When(st.snapshot = "failed", Finding("critical", "snapshot", NoSnapshot, 0))

\* the slowness warnings, in the order of metrics.step_timings (lines 747-756)
slow_warnings(timings) ==
    LET slow == SelectSeq(timings, LAMBDA it : /\ baseline_of(it.key) > 0
                                               /\ is_slow(it.duration, baseline_of(it.key)))
    IN [i \in 1..Len(slow) |->
            Finding("warning", "slow", slow[i].key,
                    overrun_percent(slow[i].duration, baseline_of(slow[i].key)))]

\* _detect_anomalies(result, step_analysis)
detect_anomalies(result) ==
    LET dd == result.db_data
        st == result.db_state
        anomalies == IF usable(dd) THEN db_anomalies(dd)
                     ELSE IF st.present THEN fallback_anomalies(st)
                     ELSE <<>>
        warnings == (IF usable(dd) THEN db_warnings(dd) ELSE <<>>)
                    \o slow_warnings(result.step_timings)
        all_issues == anomalies \o warnings
    IN IF Len(all_issues) > 0 THEN all_issues ELSE <<NORMAL>>

\* _analyze_step_timings(timings): the mark put beside each step's duration
inline_mark(duration, baseline) ==
    IF baseline > 0
    THEN IF (duration - baseline) * 100 > INLINE_PERCENT * baseline THEN "slow"
         ELSE IF (duration - baseline) * 100 < (0 - INLINE_PERCENT) * baseline THEN "fast"
         ELSE "ok"
    ELSE "info"

analyze_step_timings(timings) ==
    [i \in 1..Len(timings) |->
        [key |-> timings[i].key,
         mark |-> inline_mark(timings[i].duration, baseline_of(timings[i].key))]]

\* variant: the header looks at the is_failure flag only
status_text_from_flag(is_failure, dd) == IF is_failure THEN "BASARISIZ" ELSE "BASARILI"

\* the header status (lines 204-227): "BASARISIZ", "EKSIK" or "BASARILI"
status_text(is_failure, dd) ==
    LET a0 == ~is_failure
        a1 == IF usable(dd) /\ dd.workspace_status # "COMPLETED" THEN FALSE ELSE a0
        actual_success == IF usable(dd) /\ (dd.snapshot = NoSnapshot \/ dd.snapshot # "COMPLETED")
                          THEN FALSE ELSE a1
    IN IF is_failure \/ ~actual_success
       THEN (IF is_failure THEN "BASARISIZ" ELSE "EKSIK")
       ELSE "BASARILI"

build_detailed_slack_message(result, is_failure) ==
    [is_failure |-> is_failure,
     status_text |-> status_text(is_failure, result.db_data),
     findings |-> detect_anomalies(result),
     step_analysis |-> analyze_step_timings(result.step_timings)]

\* --------------------------------------------- the results a run hands over
\* metrics.step_timings after "setup" and the first n steps: every step took
\* its baseline, step k took `duration`
timings_upto(n, k, duration) ==
    <<[key |-> "setup", duration |-> 1]>>
    \o [i \in 1..n |-> [key |-> STEP_KEYS[i],
                        duration |-> IF i = k THEN duration ELSE BASELINE_TIMINGS[STEP_KEYS[i]]]]

HealthyDB == [status |-> "COMPLETED", prompts_count |-> HEALTHY_PROMPTS, snapshot |-> "COMPLETED",
              failed |-> 0, competitors_count |-> 1]

\* run() after step 11 (lines 106-115): db_data and db_state are step 11's two
\* readings, each of which may or may not find the workspace row
SuccessResults ==
    {[success |-> TRUE, db_data |-> collect_db_data(f2, d),
      db_state |-> verification_results(f1, d),
      step_timings |-> timings_upto(11, 11, BASELINE_TIMINGS[STEP_KEYS[11]])] :
        d \in DBContents, f1 \in BOOLEAN, f2 \in BOOLEAN}

\* except CanaryTestError (lines 126-146), here for the categories wait of step 7:
\* db_data was never set, db_state is a fresh full_verification() or None
StepErrorResults ==
    {[success |-> FALSE, db_data |-> NoData, db_state |-> st,
      step_timings |-> timings_upto(6, 6, BASELINE_TIMINGS[STEP_KEYS[6]])] :
        st \in {NoVerification} \cup {verification_results(f, d) : f \in BOOLEAN, d \in DBContents}}

\* except Exception (lines 153-170): db_state is None; db_data is set when the
\* error came after step 11
UnexpectedResults ==
    {[success |-> FALSE, db_data |-> collect_db_data(f, d), db_state |-> NoVerification,
      step_timings |-> timings_upto(11, 11, BASELINE_TIMINGS[STEP_KEYS[11]])] :
        f \in BOOLEAN, d \in DBContents}

\* one step of any duration: in a run that reached the end with healthy data,
\* or as the last timed step of a run that stopped earlier and collected none
TimedResults ==
    {[success |-> TRUE, db_data |-> collect_db_data(TRUE, HealthyDB),
      db_state |-> verification_results(TRUE, HealthyDB),
      step_timings |-> timings_upto(11, k, duration)] :
        k \in 1..11, duration \in 0..MaxDuration}
    \cup
    {[success |-> FALSE, db_data |-> NoData, db_state |-> NoVerification,
      step_timings |-> timings_upto(n, n, duration)] :
        n \in 1..10, duration \in 0..MaxDuration}

ReportInputs == SuccessResults \cup StepErrorResults \cup UnexpectedResults \cup TimedResults

ReportInit ==
    /\ pc = "report"
    /\ config \in [SLACK_WEBHOOK_URL : BOOLEAN]
    /\ report_in \in ReportInputs
    /\ report_out = NoReportOutput
    /\ clock = 0
    /\ tests = <<>>
    /\ workspaces = <<>>
    /\ exit_code = NoExit
    /\ db = NoDatabase
    /\ caches = NoCaches
    /\ answer = NoAnswer
    /\ browser = None
    /\ handles = [h \in HandleNames |-> "none"]
    /\ db_verifier = None
    /\ user_cache = NoUser
    /\ workspace_cache = NoWorkspace
    /\ workspace_id = NoId
    /\ workspace_ulid = NoId
    /\ form_submitted_time = "unset"
    /\ prompts_ready_time = "unset"
    /\ prompts_confirmed_time = "unset"
    /\ dashboard_ready_time = "unset"
    /\ db_state = NoReport
    /\ start_time = FALSE
    /\ end_time = FALSE
    /\ step_timings = <<>>
    /\ errors = <<>>
    /\ db_data = "unset"
    /\ ui_data = FALSE
    /\ waited = 0
    /\ polls = 0
    /\ flag = FALSE
    /\ exc = NoExc
    /\ results = <<>>
    /\ calls = <<>>
    /\ steps_started = <<>>
    /\ steps_returned = {}
    /\ caught = NoExc
    /\ retval = 0
    /\ returned = 0
    /\ cleanup_result = "none"

reportFrame == <<config, report_in, fleetVars, exit_code, verifierVars, objVars, cacheVars, wsVars, timeVars, db_state, metricVars,
                 loopVars, exc, outVars, steps_started, steps_returned, caught>>

\* _send_slack_report(result, is_failure): nothing is built without a webhook
send_slack_report(is_failure) ==
    /\ report_out' = IF config.SLACK_WEBHOOK_URL
                     THEN build_detailed_slack_message(report_in, is_failure)
                     ELSE report_out
    /\ pc' = "reported"
    /\ UNCHANGED reportFrame

\* send_failure_alert(result): the two except branches of run()
SendFailureAlert ==
    /\ pc = "report"
    /\ ~report_in.success
    /\ send_slack_report(TRUE)

\* send_success_notification(result): the success path of run()
SendSuccessNotification ==
    /\ pc = "report"
    /\ report_in.success
    /\ send_slack_report(FALSE)

ReportNext == SendFailureAlert \/ SendSuccessNotification

ReportSpec == ReportInit /\ [][ReportNext]_vars

\* a report has been built
Reported == pc = "reported" /\ config.SLACK_WEBHOOK_URL

\* ------------------------------------------------------------------ C16
\* C16: the report's header says success only if the run did not fail, the
\* collected data show the workspace (found and) COMPLETED and its latest
\* snapshot exists with status COMPLETED.
C16_SuccessShownOnlyWhenAllCompleted ==
    (Reported /\ report_out.status_text = "BASARILI")
        => /\ report_in.success
           /\ usable(report_in.db_data)
           /\ report_in.db_data.workspace_status = "COMPLETED"
           /\ report_in.db_data.snapshot = "COMPLETED"

\* ------------------------------------------------------------------ C17
\* every timed step that has a baseline took within 20% of it
Within20(timings) ==
    \A i \in 1..Len(timings) :
        LET b == baseline_of(timings[i].key)
            d == timings[i].duration
        IN b > 0 => /\ (d - b) * 100 <= 20 * b
                    /\ (b - d) * 100 <= 20 * b

\* the data of a run with nothing to report, for a given least prompt count
NothingToReport(min_prompts) ==
    /\ Reported
    /\ usable(report_in.db_data)
    /\ report_in.db_data.workspace_status = "COMPLETED"
    /\ report_in.db_data.snapshot = "COMPLETED"
    /\ report_in.db_data.prompts_count >= min_prompts
    /\ report_in.db_data.failed = 0
    /\ report_in.db_data.competitors_count >= 1
    /\ Within20(report_in.step_timings)

\* C17 as stated: workspace and snapshot COMPLETED, at least the minimum (15)
\* prompts, no failed snapshot prompt, a competitor and every duration within
\* 20% of its baseline give the single finding "all systems normal".
C17_NormalFromMinimumCount == NothingToReport(CRITICAL_PROMPTS) => report_out.findings = <<NORMAL>>

\* C17, amended: the same with at least the healthy number (20) of prompts.
C17_NormalFromHealthyCount == NothingToReport(HEALTHY_PROMPTS) => report_out.findings = <<NORMAL>>

C17_Witness ==
    /\ NothingToReport(HEALTHY_PROMPTS)
    /\ report_out.findings = <<NORMAL>>
    /\ \E i \in 1..Len(report_in.step_timings) :
          /\ report_in.step_timings[i].key = "step_07_wait_categories"
          /\ report_in.step_timings[i].duration = 72

\* ------------------------------------------------------------------ C18
\* the findings of the given severity about the given subject
FindingsOf(severity, about) ==
    {i \in 1..Len(report_out.findings) :
        /\ report_out.findings[i].severity = severity
        /\ report_out.findings[i].about = about}

\* C18: with collected data holding c prompts, c < 15 gives a Critical finding
\* citing c and no low-count Warning; 15 <= c < 20 gives a Warning and no
\* Critical about the count; c >= 20 gives no finding about the count.
C18_PromptCountFindings ==
    (Reported /\ usable(report_in.db_data)) =>
        LET c == report_in.db_data.prompts_count IN
        /\ c < 15 =>
              /\ \E i \in FindingsOf("critical", "prompts") : report_out.findings[i].number = c
              /\ FindingsOf("warning", "prompts") = {}
        /\ (c >= 15 /\ c < 20) =>
              /\ FindingsOf("warning", "prompts") # {}
              /\ FindingsOf("critical", "prompts") = {}
        /\ c >= 20 =>
              /\ FindingsOf("warning", "prompts") = {}
              /\ FindingsOf("critical", "prompts") = {}

C18_Witness ==
    /\ Reported
    /\ usable(report_in.db_data)
    /\ report_in.db_data.prompts_count = 14
    /\ \E i \in FindingsOf("critical", "prompts") : report_out.findings[i].number = 14
    /\ FindingsOf("warning", "prompts") = {}

\* ------------------------------------------------------------------ C19
\* the slowness Warnings about the step timed as item i of step_timings
SlowFindings(i) ==
    {j \in FindingsOf("warning", "slow") :
        report_out.findings[j].text = report_in.step_timings[i].key}

\* the timed steps that have a baseline
Baselined == {i \in 1..Len(report_in.step_timings) : baseline_of(report_in.step_timings[i].key) > 0}

\* a step has a slowness Warning exactly when d > 2b
SlowWarningIffMoreThanDouble ==
    Reported => \A i \in Baselined :
        LET b == baseline_of(report_in.step_timings[i].key)
            d == report_in.step_timings[i].duration
        IN (SlowFindings(i) # {}) <=> (d > 2 * b)

\* the Warning cites (d - b) / b in whole percent: n <= 100 (d - b) / b < n + 1
SlowWarningCitesOverrun ==
    Reported => \A i \in Baselined : \A j \in SlowFindings(i) :
        LET b == baseline_of(report_in.step_timings[i].key)
            d == report_in.step_timings[i].duration
            n == report_out.findings[j].number
        IN n * b <= (d - b) * 100 /\ (d - b) * 100 < (n + 1) * b

\* more than 20% and at most 100% over: marked inline, no finding
ModerateOverrunOnlyInline ==
    Reported => \A i \in Baselined :
        LET b == baseline_of(report_in.step_timings[i].key)
            d == report_in.step_timings[i].duration
        IN ((d - b) * 100 > 20 * b /\ d <= 2 * b) =>
              /\ report_out.step_analysis[i].mark = "slow"
              /\ SlowFindings(i) = {}

\* C19: for every step with baseline b > 0 and duration d there is a slowness
\* Warning iff d > 2b, the Warning cites the overrun percentage (d - b) / b
\* (150% for b = 60, d = 150), and an overrun above 20% up to 100% is marked
\* only in the inline timing report.
C19_SlowWarningAndItsPercentage ==
    /\ SlowWarningIffMoreThanDouble
    /\ SlowWarningCitesOverrun
    /\ ModerateOverrunOnlyInline

\* ------------------------------------------------------------------ C20
\* what the result says about the workspace and its snapshot: the collected
\* data when usable, otherwise the verification report, if there is one
WorkspaceNotCompleted ==
    \/ usable(report_in.db_data) /\ report_in.db_data.workspace_status # "COMPLETED"
    \/ /\ ~usable(report_in.db_data)
       /\ report_in.db_state.present
       /\ report_in.db_state.workspace_status = "failed"

JobMissingOrNotCompleted ==
    \/ usable(report_in.db_data) /\ report_in.db_data.snapshot # "COMPLETED"
    \/ /\ ~usable(report_in.db_data)
       /\ report_in.db_state.present
       /\ report_in.db_state.snapshot_completed # "ok"

\* C20: a workspace status other than COMPLETED gives a Critical finding about
\* the workspace status, and a snapshot that is missing or not COMPLETED gives a
\* Critical finding about the snapshot, for successful and failed runs alike.
C20_CriticalForWorkspaceAndJob ==
    Reported =>
        /\ WorkspaceNotCompleted => FindingsOf("critical", "workspace_status") # {}
        /\ JobMissingOrNotCompleted => FindingsOf("critical", "snapshot") # {}

C22_WorkspaceIdSetOnceByStep6 ==
    /\ [](workspace_id # NoId => InSeq(steps_started, 6))
    /\ [][workspace_id' # workspace_id => (pc = "step_06_wait" /\ workspace_id = NoId)]_vars

\* a later re-read returned another row and workspace_id kept its value
C22_Witness ==
    /\ 11 \in steps_returned
    /\ workspace_id # NoId
    /\ workspace_cache # NoWorkspace
    /\ workspace_cache.id # workspace_id

\* ------------------------------------------------------------------ C23
\* the steps after step 4 whose first statement reads the user record
ReadsUserNext ==
    \/ pc = "step_05" /\ ~config.SKIP_OTP_VERIFICATION
    \/ pc = "step_11"

\* C23: a read of the user record made after step 4 returns what the store
\* holds at that moment, whatever an earlier step has read.
C23_LaterUserReadsObserveTheStore ==
    ReadsUserNext => \A store \in UserRows \cup {NoUser} : get_user(user_cache, store) = store

\* ------------------------------------------------------------------ C24
\* Several CanaryTest objects alive on one host and one database
\* (canary_test.py 48-60, db_verification.py 135-162).
MaxTests == 2
MaxClock == 3
\* the ticks of the modelled clock that make up one second of time.time()
TicksPerSecond == 2

EMAIL_DOMAIN == "canary.maxeo.ai"

NoRow == 0

\* int(time.time()): the fraction of the second is dropped
int_time(now) == now \div TicksPerSecond

\* f"canary-{int(time.time())}"
make_test_id(now) == [prefix |-> "canary", stamp |-> int_time(now)]

\* f"{self.test_id}@{self.config.EMAIL_DOMAIN}"
make_test_email(test_id) == [local |-> test_id, domain |-> EMAIL_DOMAIN]

\* CanaryTest.__init__: the identity of a run
CanaryTest(now) ==
    [ test_id |-> make_test_id(now),
      test_email |-> make_test_email(make_test_id(now)),
      submitted |-> FALSE,
      workspace_cache |-> NoRow,
      alive |-> TRUE ]

\* email ILIKE :email, for addresses without wildcards or upper case
ilike(email, pattern) == email = pattern

\* the rows the query of get_workspace() selects, oldest first
matching_rows(rows, email) ==
    { k \in DOMAIN rows : ilike(rows[k].email, email) /\ ~rows[k].is_deleted }

\* ORDER BY created_at DESC LIMIT 1
latest(ks) == IF ks = {} THEN NoRow ELSE CHOOSE k \in ks : \A m \in ks : m <= k

\* DBVerifier.get_workspace(): the cached row, else the newest matching row
fleet_get_workspace(test, rows) ==
    IF test.workspace_cache # NoRow THEN test.workspace_cache
    ELSE latest(matching_rows(rows, test.test_email))

FleetInit ==
    /\ pc = "fleet"
    /\ config \in [SLACK_WEBHOOK_URL : BOOLEAN]
    /\ report_in = NoReportInput
    /\ report_out = NoReportOutput
    /\ clock = 0
    /\ tests = <<>>
    /\ workspaces = <<>>
    /\ exit_code = NoExit
    /\ db = NoDatabase
    /\ caches = NoCaches
    /\ answer = NoAnswer
    /\ browser = None
    /\ handles = [h \in HandleNames |-> "none"]
    /\ db_verifier = None
    /\ user_cache = NoUser
    /\ workspace_cache = NoWorkspace
    /\ workspace_id = NoId
    /\ workspace_ulid = NoId
    /\ form_submitted_time = "unset"
    /\ prompts_ready_time = "unset"
    /\ prompts_confirmed_time = "unset"
    /\ dashboard_ready_time = "unset"
    /\ db_state = NoReport
    /\ start_time = FALSE
    /\ end_time = FALSE
    /\ step_timings = <<>>
    /\ errors = <<>>
    /\ db_data = "unset"
    /\ ui_data = FALSE
    /\ waited = 0
    /\ polls = 0
    /\ flag = FALSE
    /\ exc = NoExc
    /\ results = <<>>
    /\ calls = <<>>
    /\ steps_started = <<>>
    /\ steps_returned = {}
    /\ caught = NoExc
    /\ retval = 0
    /\ returned = 0
    /\ cleanup_result = "none"

fleetFrame == <<pc, config, reportVars, exit_code, verifierVars, objVars, cacheVars, wsVars, timeVars, db_state,
                metricVars, loopVars, exc, outVars, steps_started, steps_returned, caught>>

\* time passes
ClockTick ==
    /\ pc = "fleet"
    /\ clock < MaxClock
    /\ clock' = clock + 1
    /\ UNCHANGED <<tests, workspaces, fleetFrame>>

\* CanaryTest(): one more run starts
Construct ==
    /\ pc = "fleet"
    /\ Len(tests) < MaxTests
    /\ tests' = Append(tests, CanaryTest(clock))
    /\ UNCHANGED <<clock, workspaces, fleetFrame>>

\* step 3 of run i: the form is submitted with the run's email and the
\* application creates the workspace row
SubmitForm(i) ==
    /\ pc = "fleet"
    /\ tests[i].alive /\ ~tests[i].submitted
    /\ workspaces' = Append(workspaces,
                            [email |-> tests[i].test_email, is_deleted |-> FALSE,
                             created_by |-> i])
    /\ tests' = [tests EXCEPT ![i].submitted = TRUE]
    /\ UNCHANGED <<clock, fleetFrame>>

\* run i reads its workspace (steps 6 to 11, cleanup)
GetWorkspace(i) ==
    /\ pc = "fleet"
    /\ tests[i].alive
    /\ tests' = [tests EXCEPT ![i].workspace_cache = fleet_get_workspace(tests[i], workspaces)]
    /\ UNCHANGED <<clock, workspaces, fleetFrame>>

\* run() of run i returns
Finish(i) ==
    /\ pc = "fleet"
    /\ tests[i].alive
    /\ tests' = [tests EXCEPT ![i].alive = FALSE]
    /\ UNCHANGED <<clock, workspaces, fleetFrame>>

FleetNext ==
    \/ ClockTick
    \/ Construct
    \/ \E i \in DOMAIN tests : SubmitForm(i)
    \/ \E i \in DOMAIN tests : GetWorkspace(i)
    \/ \E i \in DOMAIN tests : Finish(i)

FleetSpec == FleetInit /\ [][FleetNext]_vars

\* C24: two runs alive at the same time have different test_id and
\* test_email, and the workspace a run has read was created by that run.
C24_ConcurrentRunsShareNothing ==
    \A i \in DOMAIN tests : \A j \in DOMAIN tests :
        (i # j /\ tests[i].alive /\ tests[j].alive) =>
            /\ tests[i].test_id # tests[j].test_id
            /\ tests[i].test_email # tests[j].test_email
            /\ tests[i].workspace_cache # NoRow =>
                   workspaces[tests[i].workspace_cache].created_by = i

\* ------------------------------------------------------------------ C25
\* C25: nothing that happens while a notification is delivered reaches run():
\* no error raised by the notifier is handled by run(), and a run whose 11
\* steps all completed returns a result with success = TRUE.
C25_DeliveryFailuresStayInTheNotifier ==
    /\ (pc = "except_Exception" /\ exc.message = "sentry error") => FALSE
    /\ (pc = "done" /\ 11 \in steps_returned) => results[returned].success

\* ------------------------------------------------------------------ C26
\* C26: the CLI process exits only after its one run has returned, with
\* status 0 if and only if the returned result is a success, and with a
\* non-zero status for every Failed or Unexpected result.
C26_ExitCodeTellsSuccess ==
    exit_code # NoExit =>
        /\ pc = "done"
        /\ returned \in 1..Len(results)
        /\ exit_code = 0 <=> results[returned].success
        /\ results[returned].failed_step # None => exit_code > 0

\* an Unexpected outcome has been turned into a non-zero exit status
C26_Witness ==
    /\ pc = "done"
    /\ results[returned].failed_step = "UNEXPECTED"
    /\ exit_code = 1

\* ------------------------------------------------------------------ C27
\* the step number written in a step identifier ("STEP_nn_...")
STEP_NUMBER ==
    [ STEP_01_LANDING_PAGE |-> 1, STEP_02_CLICK_GET_REPORT |-> 2, STEP_03_OTP_WAIT |-> 3,
      STEP_04_VERIFY_USER |-> 4, STEP_05_GET_OTP |-> 5, STEP_05_FILL_OTP |-> 5,
      STEP_06_FILL_FORM |-> 6, STEP_06_SUBMIT_FORM |-> 6, STEP_06_WORKSPACE_CREATED |-> 6,
      STEP_07_WAIT_CATEGORIES |-> 7, STEP_08_PROMPTS_PAGE |-> 8,
      STEP_08_PROMPTS_CONTINUE |-> 8, STEP_09_SNAPSHOT_WAIT |-> 9 ]

\* the step method that was executing when the run left the step sequence
executing_step == steps_started[Len(steps_started)]

\* C27: the failed step of a Failed outcome carries the number of the step
\* that was executing when the error was raised.
C27_FailedStepNamesTheExecutingStep ==
    (pc = "except_CanaryTestError" /\ steps_started # <<>>) =>
        /\ exc.step \in DOMAIN STEP_NUMBER
        /\ STEP_NUMBER[exc.step] = executing_step

\* ------------------------------------------------------------------ C28
\* the number of polls of the category wait: ceil(timeout / interval)
CATEGORY_POLLS == (CATEGORY_WAIT_TIMEOUT + POLLING_INTERVAL - 1) \div POLLING_INTERVAL

CategoryPoll == pc = "step_07_categories" /\ polls' = polls + 1

CategoriesTimeoutRaised ==
    /\ pc' = "except_CanaryTestError"
    /\ exc'.step = "STEP_07_WAIT_CATEGORIES"

\* C28: a poll of step 7's category wait that finds one of the three ready
\* statuses ends the wait, whatever the category count, and the step goes on
\* to the prompts wait; STEP_07_WAIT_CATEGORIES is raised exactly when all
\* ceil(timeout / interval) polls ended without finding one, with the whole
\* timeout waited.
C28_CategoryWaitEndsOnStatusOnly ==
    /\ [](pc = "step_07_categories" =>
              /\ waited = polls * POLLING_INTERVAL
              /\ polls <= CATEGORY_POLLS)
    /\ [][(CategoryPoll /\ ~LogDue(waited) /\ workspace_cache' # NoWorkspace
              /\ workspace_cache'.status = "COMPLETED")
          => pc' = "step_07_categories_done"]_vars
    /\ [][pc = "step_07_categories_done" => (pc' = "step_07_prompts" /\ exc' = exc)]_vars
    /\ [][(pc \in {"step_07_categories", "step_07_categories_done"} /\ CategoriesTimeoutRaised)
          => (pc = "step_07_categories" /\ polls = CATEGORY_POLLS
              /\ waited >= CATEGORY_WAIT_TIMEOUT)]_vars
    /\ [][(pc = "step_07_categories" /\ polls = CATEGORY_POLLS) => CategoriesTimeoutRaised]_vars

\* the wait ended on a status at a later poll although no poll had seen
\* enough categories
C28_Witness ==
    /\ pc = "step_07_categories_done"
    /\ polls > 1
    /\ ~flag

\* ------------------------------------------------------------------ C29
LOADING_1 == "loading_1_form_to_prompts"

Loading1Recorded == InSeq(step_timings, LOADING_1)

\* a poll of step 7's prompts wait has seen the minimum number of prompts
PromptsObserved == pc = "step_07_prompts" /\ pc' = "step_07_prompts_done"

\* C29: Loading-1 is recorded by the poll of step 7's prompts wait that sees
\* the minimum number of prompts and by nothing else, once, between a
\* form-submit time set by step 3 and the prompts-ready time; a wait that never
\* sees the minimum leaves no Loading-1 entry.
C29_Loading1RecordedWhenPromptsObserved ==
    /\ [](Loading1Recorded =>
              /\ form_submitted_time = "set"
              /\ prompts_ready_time = "set"
              /\ Cardinality({i \in 1..Len(step_timings) : step_timings[i] = LOADING_1}) = 1)
    /\ [](pc = "step_07_prompts" => (form_submitted_time = "set" /\ ~Loading1Recorded))
    /\ []((prompts_ready_time = "unset" /\ 7 \in steps_returned) => ~Loading1Recorded)
    /\ [][PromptsObserved => (~Loading1Recorded /\ Loading1Recorded')]_vars
    /\ [][(step_timings' # step_timings /\ Loading1Recorded' # Loading1Recorded)
          => PromptsObserved]_vars

\* Loading-1 was recorded by a later poll of the wait
C29_Witness ==
    /\ pc = "step_07_prompts_done"
    /\ polls > 1
    /\ Loading1Recorded

\* the prompts wait ran out and step 7 returned without a Loading-1 entry
C29_WitnessNotObserved ==
    /\ 7 \in steps_returned
    /\ ~Loading1Recorded

\* ------------------------------------------------------------------ C30
\* C30: when step 8 never confirmed the prompts and the workspace wait of
\* step 9 has found COMPLETED (Loading-2 recorded), step 9 records its
\* duration and the run continues with step 10.
C30_Step9CompletesWithoutConfirmation ==
    [][(pc = "step_09_workspace_done" /\ prompts_confirmed_time = "unset")
       => /\ InSeq(step_timings, "loading_2_confirm_to_dashboard")
          /\ InSeq(step_timings', STEP_KEYS[9])
          /\ pc' = "step_10"]_vars

\* ------------------------------------------------------------------ C31
\* the result run() builds on the success path
SuccessResultBuilt == pc = "success" /\ Len(results') = Len(results) + 1

\* C31: step 11 stores the verification report and the comprehensive data
\* and returns whatever the report says; the result built after it is a
\* success and carries that report as db_state.
C31_FailedVerificationKeepsSuccess ==
    /\ [](pc = "success" => (11 \in steps_returned /\ db_state.present /\ db_data # "unset"))
    /\ [][(pc = "step_11" /\ db_state' # db_state)
          => (pc' = "success" /\ db_state'.present /\ db_data' # "unset")]_vars
    /\ [][SuccessResultBuilt
          => /\ results'[Len(results')].success
             /\ results'[Len(results')].db_state = db_state]_vars

\* a run has returned success with a report that says success = FALSE
C31_Witness ==
    /\ pc = "done"
    /\ results[returned].success
    /\ results[returned].db_state.present
    /\ ~results[returned].db_state.success

\* ==================================================================
\* DBVerifier: the verification report (db_verification.py 355-425, 611-658)
\* ==================================================================
MaxSnapshotPrompts == 2

MIN_CATEGORIES == 3
MIN_COMPETITORS == 1

\* the status column of snapshot_prompts; "NULL" is the SQL null, "SKIPPED"
\* stands for any value that has no key in status_counts
PromptStatuses == {"PENDING", "PROCESSING", "COMPLETED", "FAILED", "SKIPPED", "NULL"}

\* row[0].lower() if row[0] else "unknown"
status_key ==
    [ PENDING |-> "pending", PROCESSING |-> "processing", COMPLETED |-> "completed",
      FAILED |-> "failed", SKIPPED |-> "skipped", NULL |-> "unknown" ]

\* SELECT status, COUNT(*) ... GROUP BY status
group_by_status(prompts) ==
    { <<st, Cardinality({i \in 1..Len(prompts) : prompts[i] = st})>> :
          st \in {prompts[i] : i \in 1..Len(prompts)} }

RECURSIVE sum_counts(_)
sum_counts(rows) ==
    IF rows = {} THEN 0
    ELSE LET r == CHOOSE r \in rows : TRUE IN r[2] + sum_counts(rows \ {r})

\* get_snapshot_prompts_status(): every row adds to "total"; a row sets its
\* own key only when the key is one of the four that exist
get_snapshot_prompts_status(prompts) ==
    LET rows == group_by_status(prompts)
        of(key) == sum_counts({r \in rows : status_key[r[1]] = key})
    IN [ total |-> sum_counts(rows), pending |-> of("pending"),
         processing |-> of("processing"), completed |-> of("completed"),
         failed |-> of("failed") ]

NoSnapshotRow == "NONE"
SnapshotRows == {"PROCESSING", "COMPLETED"}

\* verify_all_prompts_completed(): the four tests on status_counts, in order
verify_all_prompts_completed(workspace, snapshot, prompts) ==
    LET status_counts == get_snapshot_prompts_status(prompts) IN
    /\ workspace # NoWorkspace
    /\ snapshot # NoSnapshotRow
    /\ status_counts.total # 0
    /\ ~(status_counts.failed > 0)
    /\ ~(status_counts.pending > 0 \/ status_counts.processing > 0)

\* the rows one DBVerifier can find for its email
VerifierWorkspaces == {[id |-> 1, status |-> st] : st \in {"UNKNOWN", "COMPLETED"}}
VerifierUsers == {[id |-> 1, totp_secret |-> TRUE]}

Sequences_upto(S, n) == UNION {[1..k -> S] : k \in 0..n}

Databases ==
    { d \in [ user : VerifierUsers \cup {NoUser},
              workspace : VerifierWorkspaces \cup {NoWorkspace},
              categories : {MIN_CATEGORIES - 1, MIN_CATEGORIES},
              prompts : {VERIFY_MIN_PROMPTS - 1, VERIFY_MIN_PROMPTS},
              snapshot : SnapshotRows \cup {NoSnapshotRow},
              snapshot_prompts : Sequences_upto(PromptStatuses, MaxSnapshotPrompts),
              competitors : {MIN_COMPETITORS - 1, MIN_COMPETITORS} ] :
        \* a prompt row belongs to a snapshot
        d.snapshot = NoSnapshotRow => d.snapshot_prompts = <<>> }

\* the outcome of one verify_* call, or None when the call was not made
check(passed) == IF passed THEN "pass" ELSE "fail"
NotChecked == "none"

\* full_verification(): workspace is read once to decide whether the seven
\* workspace checks run; every verify_* call then reads for itself.
\* ws_first, ws_created, ws_status and ws_later are the rows the successive
\* lookups obtain (cache or store).
full_verification(user, ws_first, ws_created, ws_status, ws_later, d) ==
    LET checks ==
          [ user |-> check(user # NoUser),
            workspace |-> check(ws_created # NoWorkspace),
            workspace_status |->
                IF ws_first = NoWorkspace THEN NotChecked
                ELSE check(verify_workspace_status(ws_status, "COMPLETED")),
            categories |->
                IF ws_first = NoWorkspace THEN NotChecked
                ELSE check(verify_count(ws_later, d.categories, MIN_CATEGORIES)),
            prompts |->
                IF ws_first = NoWorkspace THEN NotChecked
                ELSE check(verify_count(ws_later, d.prompts, VERIFY_MIN_PROMPTS)),
            snapshot |->
                IF ws_first = NoWorkspace THEN NotChecked
                ELSE check(ws_later # NoWorkspace /\ d.snapshot # NoSnapshotRow),
            snapshot_completed |->
                IF ws_first = NoWorkspace THEN NotChecked
                ELSE check(ws_later # NoWorkspace /\ d.snapshot = "COMPLETED"),
            all_prompts_completed |->
                IF ws_first = NoWorkspace THEN NotChecked
                ELSE check(verify_all_prompts_completed(ws_later, d.snapshot, d.snapshot_prompts)),
            competitors |->
                IF ws_first = NoWorkspace THEN NotChecked
                ELSE check(verify_count(ws_later, d.competitors, MIN_COMPETITORS)) ]
    IN [ op |-> "full_verification",
         success |-> \A key \in DOMAIN checks : checks[key] # "fail",
         results |-> checks ]

CacheStates ==
    [ _user_cache : VerifierUsers \cup {NoUser},
      _workspace_cache : VerifierWorkspaces \cup {NoWorkspace} ]

VerifyInit ==
    /\ pc = "verify"
    /\ config \in [SLACK_WEBHOOK_URL : BOOLEAN]
    /\ db \in Databases
    /\ caches \in CacheStates
    /\ answer = NoAnswer
    /\ report_in = NoReportInput
    /\ report_out = NoReportOutput
    /\ clock = 0
    /\ tests = <<>>
    /\ workspaces = <<>>
    /\ exit_code = NoExit
    /\ browser = None
    /\ handles = [h \in HandleNames |-> "none"]
    /\ db_verifier = None
    /\ user_cache = NoUser
    /\ workspace_cache = NoWorkspace
    /\ workspace_id = NoId
    /\ workspace_ulid = NoId
    /\ form_submitted_time = "unset"
    /\ prompts_ready_time = "unset"
    /\ prompts_confirmed_time = "unset"
    /\ dashboard_ready_time = "unset"
    /\ db_state = NoReport
    /\ start_time = FALSE
    /\ end_time = FALSE
    /\ step_timings = <<>>
    /\ errors = <<>>
    /\ db_data = "unset"
    /\ ui_data = FALSE
    /\ waited = 0
    /\ polls = 0
    /\ flag = FALSE
    /\ exc = NoExc
    /\ results = <<>>
    /\ calls = <<>>
    /\ steps_started = <<>>
    /\ steps_returned = {}
    /\ caught = NoExc
    /\ retval = 0
    /\ returned = 0
    /\ cleanup_result = "none"

verifyFrame == <<config, reportVars, fleetVars, exit_code, objVars, cacheVars, wsVars, timeVars,
                 db_state, metricVars, loopVars, exc, outVars, steps_started, steps_returned,
                 caught>>

\* the workspaces table as a later SELECT of the same call can find it: the
\* application is still writing while the canary reads
LaterWorkspaces == VerifierWorkspaces \cup {NoWorkspace}

\* one call of verify_all_prompts_completed()
VerifyAllPromptsCompleted ==
    /\ pc = "verify"
    /\ LET ws == get_workspace(caches._workspace_cache, db.workspace) IN
       /\ answer' = [op |-> "verify_all_prompts_completed",
                     success |-> verify_all_prompts_completed(ws, db.snapshot, db.snapshot_prompts)]
       /\ caches' = [caches EXCEPT !._workspace_cache = ws]
    /\ pc' = "verified"
    /\ UNCHANGED <<db, verifyFrame>>

\* one call of full_verification()
FullVerification ==
    /\ pc = "verify"
    /\ \E second \in LaterWorkspaces, third \in LaterWorkspaces, fourth \in LaterWorkspaces :
        LET user == get_user(caches._user_cache, db.user)
            ws_first == get_workspace(caches._workspace_cache, db.workspace)
            ws_created == get_workspace(ws_first, second)
            ws_status == IF ws_first = NoWorkspace THEN ws_created ELSE refresh_workspace(third)
            ws_later == get_workspace(ws_status, fourth)
        IN
        /\ answer' = full_verification(user, ws_first, ws_created, ws_status, ws_later, db)
        /\ caches' = [_user_cache |-> user,
                      _workspace_cache |-> IF ws_first = NoWorkspace THEN ws_created ELSE ws_later]
        /\ db' = [db EXCEPT !.workspace =
                     IF ws_first = NoWorkspace THEN second ELSE fourth]
    /\ pc' = "verified"
    /\ UNCHANGED verifyFrame

VerifyNext ==
    \/ VerifyAllPromptsCompleted
    \/ FullVerification

VerifySpec == VerifyInit /\ [][VerifyNext]_vars

\* ------------------------------------------------------------------ C33
\* C33: verify_all_prompts_completed() succeeds only when the latest
\* snapshot has at least one prompt and every prompt of it is completed, so
\* that the completed count equals the total.
C33_SuccessOnlyWhenEveryPromptCompleted ==
    (pc = "verified" /\ answer.op = "verify_all_prompts_completed" /\ answer.success) =>
        /\ db.snapshot # NoSnapshotRow
        /\ Len(db.snapshot_prompts) >= 1
        /\ \A i \in 1..Len(db.snapshot_prompts) : db.snapshot_prompts[i] = "COMPLETED"
        /\ get_snapshot_prompts_status(db.snapshot_prompts).completed
               = get_snapshot_prompts_status(db.snapshot_prompts).total

\* ------------------------------------------------------------------ C32
FullVerificationDone == pc = "verified" /\ answer.op = "full_verification"

WORKSPACE_CHECKS == {"workspace_status", "categories", "prompts", "snapshot",
                     "snapshot_completed", "all_prompts_completed", "competitors"}

\* C32: full_verification() reports success exactly when all nine checks
\* were made and passed, "all snapshot prompts completed" meaning that every
\* prompt row of the snapshot is COMPLETED; without a workspace only the user
\* and workspace checks are made and success is FALSE.
C32_SuccessIffEveryCheckPasses ==
    FullVerificationDone =>
        /\ answer.success <=> (\A key \in DOMAIN answer.results : answer.results[key] = "pass")
        /\ answer.success =>
              /\ db.snapshot = "COMPLETED"
              /\ Len(db.snapshot_prompts) >= 1
              /\ \A i \in 1..Len(db.snapshot_prompts) : db.snapshot_prompts[i] = "COMPLETED"
        /\ answer.results.workspace = "fail" =>
              /\ ~answer.success
              /\ \A key \in WORKSPACE_CHECKS : answer.results[key] = NotChecked

\* ------------------------------------------------------------------ C34
\* C34: the handler of a step failure always ends with a Failed result that
\* carries the step and message of the error, whatever happens to the
\* debugging snapshot, and sends the failure alert for it; the result's
\* db_state is a report or, when none could be taken, empty.
C34_SnapshotFailureKeepsTheFailedOutcome ==
    [][pc = "except_CanaryTestError" =>
          /\ pc' = "finally"
          /\ Len(results') = Len(results) + 1
          /\ ~results'[Len(results')].success
          /\ results'[Len(results')].failed_step = exc.step
          /\ results'[Len(results')].error_message = exc.message
          /\ results'[Len(results')].db_state \in {NoReport} \cup [present : {TRUE}, success : BOOLEAN]
          /\ db_verifier = None => results'[Len(results')].db_state = NoReport
          /\ calls' = Append(calls, Call("send_failure_alert", Len(results')))
          /\ retval' = Len(results')]_vars

\* a run with a DB verifier returned Failed with an empty db_state: the
\* snapshot raised
C34_Witness ==
    /\ pc = "done"
    /\ db_verifier # None
    /\ results[returned].failed_step \notin {None, "UNEXPECTED"}
    /\ results[returned].db_state = NoReport
    /\ InSeq(calls, Call("send_failure_alert", returned))

\* ==================================================================
\* DBVerifier: lookups, caches and cleanup (db_verification.py 73-167, 660-710)
\* ==================================================================
MaxCalls == 3

\* the users and workspaces rows of the email that are not soft deleted
Tables == [user : VerifierUsers \cup {NoUser}, workspace : VerifierWorkspaces \cup {NoWorkspace}]

\* the statement of a call at which the database raises, if any
LookupFailures == {"none", "select"}
CleanupFailures == {"none", "select_workspace", "select_user", "connect",
                    "update_workspace", "commit_workspace", "update_user", "commit_user"}

NoCall == [op |-> "none", seq |-> 0, raised |-> FALSE]

LookupInit ==
    /\ pc = "lookup"
    /\ config \in [SLACK_WEBHOOK_URL : BOOLEAN]
    /\ db \in Tables
    /\ caches = [_user_cache |-> NoUser, _workspace_cache |-> NoWorkspace]
    /\ answer = NoCall
    /\ report_in = NoReportInput
    /\ report_out = NoReportOutput
    /\ clock = 0
    /\ tests = <<>>
    /\ workspaces = <<>>
    /\ exit_code = NoExit
    /\ browser = None
    /\ handles = [h \in HandleNames |-> "none"]
    /\ db_verifier = None
    /\ user_cache = NoUser
    /\ workspace_cache = NoWorkspace
    /\ workspace_id = NoId
    /\ workspace_ulid = NoId
    /\ form_submitted_time = "unset"
    /\ prompts_ready_time = "unset"
    /\ prompts_confirmed_time = "unset"
    /\ dashboard_ready_time = "unset"
    /\ db_state = NoReport
    /\ start_time = FALSE
    /\ end_time = FALSE
    /\ step_timings = <<>>
    /\ errors = <<>>
    /\ db_data = "unset"
    /\ ui_data = FALSE
    /\ waited = 0
    /\ polls = 0
    /\ flag = FALSE
    /\ exc = NoExc
    /\ results = <<>>
    /\ calls = <<>>
    /\ steps_started = <<>>
    /\ steps_returned = {}
    /\ caught = NoExc
    /\ retval = 0
    /\ returned = 0
    /\ cleanup_result = "none"

lookupFrame == <<pc, verifyFrame>>

\* the application inserts, updates or deletes the rows of the email
StoreChange ==
    /\ pc = "lookup"
    /\ db' \in Tables \ {db}
    /\ UNCHANGED <<caches, answer, lookupFrame>>

Returned(op, value) == [op |-> op, seq |-> answer.seq + 1, raised |-> FALSE, value |-> value]
Raised(op) == [op |-> op, seq |-> answer.seq + 1, raised |-> TRUE]

\* get_user()
GetUser ==
    /\ pc = "lookup"
    /\ answer.seq < MaxCalls
    /\ \E failure \in LookupFailures :
        IF failure = "select" /\ caches._user_cache = NoUser
        THEN answer' = Raised("get_user") /\ UNCHANGED caches
        ELSE /\ answer' = Returned("get_user", get_user(caches._user_cache, db.user))
             /\ caches' = [caches EXCEPT !._user_cache = get_user(caches._user_cache, db.user)]
    /\ UNCHANGED <<db, lookupFrame>>

\* get_workspace()
GetWorkspace_call ==
    /\ pc = "lookup"
    /\ answer.seq < MaxCalls
    /\ \E failure \in LookupFailures :
        IF failure = "select" /\ caches._workspace_cache = NoWorkspace
        THEN answer' = Raised("get_workspace") /\ UNCHANGED caches
        ELSE /\ answer' = Returned("get_workspace",
                                   get_workspace(caches._workspace_cache, db.workspace))
             /\ caches' = [caches EXCEPT !._workspace_cache =
                                             get_workspace(caches._workspace_cache, db.workspace)]
    /\ UNCHANGED <<db, lookupFrame>>

\* refresh_workspace(): the cache is cleared before the SELECT
RefreshWorkspace ==
    /\ pc = "lookup"
    /\ answer.seq < MaxCalls
    /\ \E failure \in LookupFailures :
        IF failure = "select"
        THEN /\ answer' = Raised("refresh_workspace")
             /\ caches' = [caches EXCEPT !._workspace_cache = NoWorkspace]
        ELSE /\ answer' = Returned("refresh_workspace", refresh_workspace(db.workspace))
             /\ caches' = [caches EXCEPT !._workspace_cache = refresh_workspace(db.workspace)]
    /\ UNCHANGED <<db, lookupFrame>>

\* the dict cleanup_test_data() returns
CleanupResults(workspace_deleted, user_deleted, error_count) ==
    [workspace_deleted |-> workspace_deleted, user_deleted |-> user_deleted,
     errors |-> error_count]

\* cleanup_test_data(): the two lookups come before the try block; inside it
\* each soft deletion is an UPDATE and a commit, and its flag is set after the
\* commit
CleanupTestData ==
    /\ pc = "lookup"
    /\ answer.seq < MaxCalls
    /\ \E failure \in CleanupFailures :
        LET workspace == get_workspace(caches._workspace_cache, db.workspace)
            user == get_user(caches._user_cache, db.user)
            delete_workspace == workspace # NoWorkspace
            delete_user == user # NoUser
            workspace_done == delete_workspace
                              /\ failure \notin {"connect", "update_workspace", "commit_workspace"}
            user_done == delete_user
                         /\ failure \notin {"connect", "update_workspace", "commit_workspace",
                                            "update_user", "commit_user"}
            \* the statement is reached
            happens == CASE failure = "none" -> TRUE
                         [] failure = "select_workspace" -> caches._workspace_cache = NoWorkspace
                         [] failure = "select_user" -> caches._user_cache = NoUser
                         [] failure = "connect" -> TRUE
                         [] failure \in {"update_workspace", "commit_workspace"} -> delete_workspace
                         [] failure \in {"update_user", "commit_user"} -> delete_user
        IN
        /\ happens
        /\ CASE failure = "select_workspace" ->
                  /\ answer' = Raised("cleanup_test_data")
                  /\ UNCHANGED <<caches, db>>
             [] failure = "select_user" ->
                  /\ answer' = Raised("cleanup_test_data")
                  /\ caches' = [caches EXCEPT !._workspace_cache = workspace]
                  /\ UNCHANGED db
             [] OTHER ->
                  /\ answer' = Returned("cleanup_test_data",
                                        CleanupResults(workspace_done, user_done,
                                                       IF failure = "none" THEN 0 ELSE 1))
                  /\ caches' = [_user_cache |-> user, _workspace_cache |-> workspace]
                  /\ db' = [user |-> IF user_done THEN NoUser ELSE db.user,
                            workspace |-> IF workspace_done THEN NoWorkspace ELSE db.workspace]
    /\ UNCHANGED lookupFrame

LookupNext ==
    \/ StoreChange
    \/ GetUser
    \/ GetWorkspace_call
    \/ RefreshWorkspace
    \/ CleanupTestData

LookupSpec == LookupInit /\ [][LookupNext]_vars

\* ------------------------------------------------------------------ C35
CallReturns(op) == answer'.seq = answer.seq + 1 /\ answer'.op = op /\ ~answer'.raised

\* C35: a lookup that finds nothing leaves the cache empty, so a lookup made
\* with an empty cache returns the row the store holds at that moment; and
\* refresh_workspace() returns the store's current row whatever the cache held.
C35_NotFoundIsNeverCached ==
    /\ [][(CallReturns("get_user") /\ caches._user_cache = NoUser)
          => (answer'.value = db.user /\ caches'._user_cache = db.user)]_vars
    /\ [][(CallReturns("get_workspace") /\ caches._workspace_cache = NoWorkspace)
          => (answer'.value = db.workspace /\ caches'._workspace_cache = db.workspace)]_vars
    /\ [][CallReturns("refresh_workspace")
          => (answer'.value = db.workspace /\ caches'._workspace_cache = db.workspace)]_vars
    /\ []((answer.op = "get_user" /\ ~answer.raised /\ answer.value = NoUser)
              => caches._user_cache = NoUser)
    /\ []((answer.op \in {"get_workspace", "refresh_workspace"} /\ ~answer.raised
           /\ answer.value = NoWorkspace) => caches._workspace_cache = NoWorkspace)

\* after two lookups that found nothing the user appeared and the third
\* lookup returned it
C35_Witness ==
    /\ answer.op = "get_user"
    /\ answer.seq = 3
    /\ ~answer.raised
    /\ answer.value # NoUser
    /\ answer.value = db.user

\* ------------------------------------------------------------------ C36
\* C36: cleanup_test_data() never raises; a database error is returned in
\* its errors list, with the flags of the soft deletions committed before it.
C36_CleanupNeverRaises ==
    answer.op = "cleanup_test_data" => ~answer.raised

\* ------------------------------------------------------------------ C37
RunReturned == pc = "done" /\ returned \in 1..Len(results)

\* C37: when run() returns, metrics.errors holds exactly one entry, naming the
\* result's failed step (a step identifier or UNEXPECTED), if the returned
\* result is a failure, and is empty if the returned result is a success.
C37_OneErrorEntryPerFailedRun ==
    RunReturned =>
        IF results[returned].success
        THEN errors = <<>>
        ELSE /\ Len(errors) = 1
             /\ errors[1].step # None
             /\ errors[1].step = results[returned].failed_step
             /\ errors[1].error = results[returned].error_message

\* the success result was built, its notification raised, and the run
\* returned the UNEXPECTED result with one recorded error
C37_Witness ==
    /\ RunReturned
    /\ Len(results) = 2
    /\ results[1].success
    /\ ~results[returned].success
    /\ Len(errors) = 1
    /\ errors[1].step = "UNEXPECTED"

\* a step failure: the one entry names the step that raised
C37_WitnessStep ==
    /\ RunReturned
    /\ Len(errors) = 1
    /\ errors[1].step \notin {"UNEXPECTED", None}

\* ------------------------------------------------------------------ C38
\* C38: the "no anomaly - all systems normal" finding appears only in the
\* report of a successful result; the report of a failed result holds at
\* least one finding and none of them is the "all systems normal" one.
C38_NormalOnlyForSuccess ==
    (Reported /\ ~report_in.success) =>
        /\ Len(report_out.findings) >= 1
        /\ \A i \in 1..Len(report_out.findings) : report_out.findings[i] # NORMAL

\* ------------------------------------------------------------------ C39
\* the event loop resumes run() whenever the call it awaits has returned:
\* every awaited call of the model returns or raises, so a step that can be
\* taken is eventually taken
\* the configuration config.py ships: AUTO_CLEANUP on, OTP verification on
DefaultConfig == [AUTO_CLEANUP |-> TRUE, SKIP_OTP_VERIFICATION |-> FALSE]

LiveInit == Init /\ config = DefaultConfig

LiveSpec == LiveInit /\ [][Next]_vars /\ WF_vars(Next)

\* the seven polling loops: label, timeout and sleep of each
PollingLoops ==
    {<<"step_06_wait", WORKSPACE_MAX_WAIT, WORKSPACE_POLL_SLEEP>>,
     <<"step_07_categories", CATEGORY_WAIT_TIMEOUT, POLLING_INTERVAL>>,
     <<"step_07_prompts", PROMPTS_TIMEOUT, POLLING_INTERVAL>>,
     <<"step_08_prompts", CATEGORY_WAIT_TIMEOUT, POLLING_INTERVAL>>,
     <<"step_08_status", INTER_STEP_2_TIMEOUT, POLLING_INTERVAL>>,
     <<"step_09_snapshot", SNAPSHOT_WAIT_TIMEOUT, POLLING_INTERVAL>>,
     <<"step_09_workspace", WORKSPACE_COMPLETED_TIMEOUT, POLLING_INTERVAL>>}

ceil_div(a, b) == (a + b - 1) \div b

\* C39: with a positive poll interval and calls that return, every polling
\* loop makes at most ceil(timeout/interval) iterations, and run() eventually
\* goes through its release phase and returns a result.
C39_EveryRunTerminates ==
    /\ [](\A loop \in PollingLoops :
            pc = loop[1] =>
                /\ loop[3] > 0
                /\ polls * loop[3] = waited
                /\ polls <= ceil_div(loop[2], loop[3]))
    /\ <>(pc = "done" /\ returned \in 1..Len(results))

\* the categories wait used all of its ceil(120/5) iterations, step 7 raised
\* its timeout and the run returned that failure
C39_Witness ==
    /\ pc = "done"
    /\ returned \in 1..Len(results)
    /\ results[returned].failed_step = "STEP_07_WAIT_CATEGORIES"
    /\ exit_code # NoExit

\* the snapshot wait at its last permitted iteration
C39_WitnessLastIteration ==
    /\ pc = "step_09_snapshot"
    /\ polls = ceil_div(SNAPSHOT_WAIT_TIMEOUT, POLLING_INTERVAL)
====
